---- MODULE Spec2Model ----
(***************************************************************************)
(* State-machine model of the cluster mutation engine of SqlCatalog:      *)
(* VectorizeCatalog/cluster/backend.py (class ClusterState) and the pure   *)
(* helpers of VectorizeCatalog/cluster/clustering.py.                      *)
(*                                                                         *)
(* Python dicts are insertion-ordered: `clusters` and `groups` are modelled*)
(* as sequences of records keyed by cluster_id / group_id.  Python lists   *)
(* are sequences, Python sets are sets.  A float similarity n/d is the     *)
(* reduced fraction [num |-> n, den |-> d].  datetime.now() is a logical   *)
(* clock: every stamp is later than the one it replaces.                   *)
(***************************************************************************)
EXTENDS Integers, Sequences, FiniteSets, TLC

VARIABLES
    clusters,              \* Dict[str, ClusterInfo], insertion ordered
    groups,                \* Dict[str, ProcedureGroup], insertion ordered
    cluster_order,         \* List[str]
    group_order,           \* List[str]
    global_tables,         \* Set[str]
    missing_tables,        \* Set[str]
    orphaned_tables,       \* Set[str]
    similarity_edges,      \* List[SimilarityEdge]
    parameters,            \* Dict[str, Any]
    table_usage,           \* Counter[str]
    table_nodes,           \* List[Dict]
    procedure_table_edges, \* List[ProcedureTableEdge]
    last_updated,          \* datetime of the last rebuild
    trash,                 \* List[TrashItem]
    result,                \* history: the last call, its arguments and outcome
    \* rebuild_clusters_from_catalog, the initial clustering run
    catalog,               \* catalog.json: Procedures, Tables
    run_parameters,        \* the parameters of the run
    stage,                 \* the statement the run has reached
    gathered,              \* what gather_procedure_groups returned
    edge_list,             \* `edges`: List[Tuple[int, int, float]]
    connected_groups,      \* build_clusters_two_phase: groups still to assign
    partition,             \* build_clusters_two_phase: its local `clusters`
    output_data,           \* clusters.json as written
    \* ClusterService and the threads that call it
    lock,                  \* self._lock: the thread that holds it, or None
    pc,                    \* per thread: the statement it has reached
    call,                  \* per thread: the locals of its call
    calls,                 \* per thread: the calls it has finished
    disk                   \* the snapshot file

vars == <<clusters, groups, cluster_order, group_order, global_tables,
          missing_tables, orphaned_tables, similarity_edges, parameters,
          table_usage, table_nodes, procedure_table_edges, last_updated,
          trash, result, catalog, run_parameters, stage, gathered, edge_list,
          connected_groups, partition, output_data, lock, pc, call, calls,
          disk>>

service_vars == <<lock, pc, call, calls, disk>>

ingest_vars == <<catalog, run_parameters, stage, gathered, edge_list,
                 connected_groups, partition, output_data>>

----------------------------------------------------------------------------
(* Bounds of the model *)

\* mutations are explored until the logical clock reaches this stamp
MaxClock == 3

\* the calls each thread of the service makes
MaxCalls == 1

----------------------------------------------------------------------------
(* Python values *)

None == "None"

Range(seq) == {seq[i] : i \in 1..Len(seq)}

InSeq(seq, x) == \E i \in 1..Len(seq) : seq[i] = x

\* [y for y in seq if y != x]
Without(seq, x) == SelectSeq(seq, LAMBDA y : y # x)

\* list.remove(x): drops the first occurrence; the caller checks x is present
RemoveFirst(seq, x) ==
    LET k == CHOOSE i \in 1..Len(seq) :
                 seq[i] = x /\ \A j \in 1..(i - 1) : seq[j] # x
    IN  SubSeq(seq, 1, k - 1) \o SubSeq(seq, k + 1, Len(seq))

\* list.pop(index) for a 0-based index
PopAt(seq, index) == SubSeq(seq, 1, index) \o SubSeq(seq, index + 2, Len(seq))

\* the names the model sorts, in the order of Python's str comparison
\* (code points: digits < upper case < "_" < lower case)
SuffixedIds(p) == <<p, p \o "_2", p \o "_3", p \o "__2", p \o "__3">>

TrashIds(p) == <<"trash_" \o p, "trash_" \o p \o "_2", "trash_" \o p \o "_3">>

SortOrder ==
    <<"Items", "Orders">>
    \o SuffixedIds("P1") \o SuffixedIds("P2") \o SuffixedIds("P3")
    \o <<"P4", "PG0", "PG1", "audit", "items", "logs", "orders", "t1", "t2", "t3">>
    \o TrashIds("P1") \o TrashIds("P2") \o TrashIds("P3")
    \o <<"users">>

Rank == [x \in Range(SortOrder) |->
            CHOOSE i \in 1..Len(SortOrder) : SortOrder[i] = x]

RECURSIVE sorted(_)
sorted(S) ==
    IF S = {} THEN <<>>
    ELSE LET m == CHOOSE x \in S : \A y \in S : Rank[x] <= Rank[y]
         IN  <<m>> \o sorted(S \ {m})

\* str.lower() on the names in use
LowerTable ==
    [x \in {"Trash", "TRASH", "Alpha", "ALPHA", "C0", "C1", "C2",
            "P1", "P2", "P3", "PG0", "Items", "Orders", "Audit"} |->
        CASE x \in {"Trash", "TRASH"} -> "trash"
          [] x = "Items" -> "items"
          [] x = "Orders" -> "orders"
          [] x = "Audit" -> "audit"
          [] x \in {"Alpha", "ALPHA"} -> "alpha"
          [] x = "C0" -> "c0"
          [] x = "C1" -> "c1"
          [] x = "C2" -> "c2"
          [] x = "P1" -> "p1"
          [] x = "P2" -> "p2"
          [] x = "P3" -> "p3"
          [] x = "PG0" -> "pg0"]

lower(x) == IF x \in DOMAIN LowerTable THEN LowerTable[x] ELSE x

\* str.strip() on the names in use
strip(x) == IF x = " Alpha " THEN "Alpha" ELSE x

RECURSIVE Gcd(_, _)
Gcd(a, b) == IF b = 0 THEN a ELSE Gcd(b, a % b)

\* float n / d
Frac(n, d) == [num |-> n \div Gcd(n, d), den |-> d \div Gcd(n, d)]

FracGeq(x, y) == x.num * y.den >= y.num * x.den

FracGt(x, y) == x.num * y.den > y.num * x.den

\* all orders in which list(a_set) can enumerate a set
ListsOf(S) ==
    {q \in [1..Cardinality(S) -> S] : \A i, j \in 1..Cardinality(S) :
                                          i # j => q[i] # q[j]}

----------------------------------------------------------------------------
(* Ordered dicts keyed by cluster_id / group_id *)

ClusterKeys(cs) == {cs[i].cluster_id : i \in 1..Len(cs)}

GetCluster(cs, cid) == cs[CHOOSE i \in 1..Len(cs) : cs[i].cluster_id = cid]

PutCluster(cs, c) ==
    IF c.cluster_id \in ClusterKeys(cs)
    THEN [i \in 1..Len(cs) |->
             IF cs[i].cluster_id = c.cluster_id THEN c ELSE cs[i]]
    ELSE Append(cs, c)

DelCluster(cs, cid) == SelectSeq(cs, LAMBDA c : c.cluster_id # cid)

GroupKeys(gs) == {gs[i].group_id : i \in 1..Len(gs)}

GetGroup(gs, gid) == gs[CHOOSE i \in 1..Len(gs) : gs[i].group_id = gid]

PutGroup(gs, g) ==
    IF g.group_id \in GroupKeys(gs)
    THEN [i \in 1..Len(gs) |->
             IF gs[i].group_id = g.group_id THEN g ELSE gs[i]]
    ELSE Append(gs, g)

DelGroup(gs, gid) == SelectSeq(gs, LAMBDA g : g.group_id # gid)

\* ClusterInfo(cluster_id, group_ids, display_name)
ClusterInfo(cid, gids, name) ==
    [cluster_id |-> cid, group_ids |-> gids, display_name |-> name,
     procedures |-> <<>>, tables |-> <<>>, procedure_count |-> 0]

\* ProcedureGroup(group_id, cluster_id, procedures, tables, is_singleton,
\*                display_name)
ProcedureGroup(gid, cid, procs, tabs, single, name) ==
    [group_id |-> gid, cluster_id |-> cid, procedures |-> procs,
     tables |-> tabs, is_singleton |-> single, display_name |-> name]

\* dict.get(key, default) on the parameters, then `or default`
ParamOr(params, key, default, falsy) ==
    IF params[key] = <<>> THEN default
    ELSE IF params[key][1] = falsy THEN default
    ELSE params[key][1]

----------------------------------------------------------------------------
(* Derived data recomputation: ClusterState.rebuild_indexes.               *)
(* A state `s` is a record with one field per attribute of ClusterState.   *)

\* first loop of rebuild_indexes: prune every cluster's group_ids
prune_group_ids(cs, gs) ==
    [i \in 1..Len(cs) |->
        [cs[i] EXCEPT !.group_ids =
            SelectSeq(@, LAMBDA gid :
                /\ gid \in GroupKeys(gs)
                /\ GetGroup(gs, gid).cluster_id = cs[i].cluster_id)]]

\* second loop of rebuild_indexes, from the i-th group on: add back the
\* groups their cluster does not list
RECURSIVE add_missing_group_ids(_, _, _)
add_missing_group_ids(cs, gs, i) ==
    IF i > Len(gs) THEN cs
    ELSE LET g == gs[i]
         IN  IF /\ g.cluster_id \in ClusterKeys(cs)
                /\ ~InSeq(GetCluster(cs, g.cluster_id).group_ids, g.group_id)
             THEN add_missing_group_ids(
                      PutCluster(cs, [GetCluster(cs, g.cluster_id) EXCEPT
                                         !.group_ids = Append(@, g.group_id)]),
                      gs, i + 1)
             ELSE add_missing_group_ids(cs, gs, i + 1)

\* the cluster summaries left as they were, not recomputed
cluster_summaries_kept(cs, gs) == cs

\* third loop of rebuild_indexes: the cluster summaries
cluster_summaries(cs, gs) ==
    [i \in 1..Len(cs) |->
        LET procedure_set ==
                UNION {Range(GetGroup(gs, gid).procedures) :
                           gid \in Range(cs[i].group_ids)}
            table_set ==
                UNION {Range(GetGroup(gs, gid).tables) :
                           gid \in Range(cs[i].group_ids)}
        IN  [cs[i] EXCEPT !.procedures = sorted(procedure_set),
                          !.tables = sorted(table_set),
                          !.procedure_count = Cardinality(procedure_set)]]

\* the sum of a list of numbers
RECURSIVE SumSeq(_)
SumSeq(seq) == IF seq = <<>> THEN 0 ELSE Head(seq) + SumSeq(Tail(seq))

CountIn(seq, x) == Cardinality({j \in 1..Len(seq) : seq[j] = x})

\* table_usage[table] += 1 for every table of every group
count_table_usage(gs) ==
    LET used == UNION {Range(gs[i].tables) : i \in 1..Len(gs)}
        occurrences(t) ==
            SumSeq([i \in 1..Len(gs) |-> CountIn(gs[i].tables, t)])
    IN  [t \in used |-> occurrences(t)]

\* table_cluster_map[table].add(group.cluster_id)
table_cluster_map(gs) ==
    LET used == UNION {Range(gs[i].tables) : i \in 1..Len(gs)}
    IN  [t \in used |->
            {gs[i].cluster_id : i \in {j \in 1..Len(gs) :
                                          InSeq(gs[j].tables, t)}}]

\* int(self.parameters.get("min_global_clusters", 2) or 2)
min_global_clusters_of(params) == ParamOr(params, "min_global_clusters", 2, 0)

\* the tables listed in more than min_global_clusters clusters
global_tables_above(gs, min_global_clusters) ==
    LET tcm == table_cluster_map(gs)
    IN  {t \in DOMAIN tcm : Cardinality(tcm[t]) > min_global_clusters}

\* the global tables rebuild_indexes computes for a threshold
global_tables_for(gs, min_global_clusters) ==
    LET tcm == table_cluster_map(gs)
    IN  {t \in DOMAIN tcm : Cardinality(tcm[t]) >= min_global_clusters}

compute_global_tables(gs, params) ==
    global_tables_for(gs, min_global_clusters_of(params))

build_table_nodes(usage, globals, missing, orphaned) ==
    LET used == sorted(DOMAIN usage)
        orph == sorted(orphaned)
    IN  [i \in 1..Len(used) |->
            [table |-> used[i], usage_count |-> usage[used[i]],
             is_global |-> used[i] \in globals,
             is_missing |-> used[i] \in missing,
             is_orphaned |-> FALSE]]
        \o
        [i \in 1..Len(orph) |->
            [table |-> orph[i], usage_count |-> 0, is_global |-> FALSE,
             is_missing |-> FALSE, is_orphaned |-> TRUE]]

RECURSIVE build_procedure_table_edges(_, _, _)
build_procedure_table_edges(gs, globals, i) ==
    IF i > Len(gs) THEN <<>>
    ELSE [j \in 1..Len(gs[i].tables) |->
             [group_id |-> gs[i].group_id, table |-> gs[i].tables[j],
              is_global_table |-> gs[i].tables[j] \in globals]]
         \o build_procedure_table_edges(gs, globals, i + 1)

\* int(self.parameters.get("min_group_size", 1) or 1)
min_group_size_of(params) == ParamOr(params, "min_group_size", 1, 0)

\* float(self.parameters.get("similarity_threshold", 0.5) or 0.5)
similarity_threshold_of(params) ==
    ParamOr(params, "similarity_threshold", Frac(1, 2), Frac(0, 1))

\* the tables of a group that are not global
core_tables(g, globals) == {t \in Range(g.tables) : t \notin globals}

\* the inner loop of _recompute_similarity_edges for group_a = ids[i],
\* from group_b = ids[j] on
RECURSIVE edges_of_pairs(_, _, _, _, _, _, _)
edges_of_pairs(gs, ids, globals, min_group_size, threshold, i, j) ==
    IF i > Len(ids) THEN <<>>
    ELSE IF j > Len(ids)
    THEN edges_of_pairs(gs, ids, globals, min_group_size, threshold,
                        i + 1, i + 2)
    ELSE LET core_a == core_tables(GetGroup(gs, ids[i]), globals)
             core_b == core_tables(GetGroup(gs, ids[j]), globals)
             intersection == core_a \cap core_b
             union == core_a \cup core_b
             rest == edges_of_pairs(gs, ids, globals, min_group_size,
                                    threshold, i, j + 1)
         IN  IF Cardinality(core_a) < min_group_size THEN rest
             ELSE IF Cardinality(core_b) < min_group_size THEN rest
             ELSE IF intersection = {} THEN rest
             ELSE LET similarity == Frac(Cardinality(intersection),
                                         Cardinality(union))
                  IN  IF FracGeq(similarity, threshold)
                      THEN <<[source |-> ids[i], target |-> ids[j],
                              similarity |-> similarity]>> \o rest
                      ELSE rest

_recompute_similarity_edges(gs, globals, params) ==
    edges_of_pairs(gs, sorted(GroupKeys(gs)), globals,
                   min_group_size_of(params), similarity_threshold_of(params),
                   1, 2)

\* rebuild_indexes recomputing the similarity edges before the global tables
rebuild_indexes_edges_first(s) ==
    LET cs1 == prune_group_ids(s.clusters, s.groups)
        cs2 == add_missing_group_ids(cs1, s.groups, 1)
        cs3 == cluster_summaries(cs2, s.groups)
        usage == count_table_usage(s.groups)
        globals == compute_global_tables(s.groups, s.parameters)
    IN  [s EXCEPT
            !.clusters = cs3,
            !.table_usage = usage,
            !.global_tables = globals,
            !.table_nodes = build_table_nodes(usage, globals,
                                s.missing_tables, s.orphaned_tables),
            !.procedure_table_edges =
                build_procedure_table_edges(s.groups, globals, 1),
            !.similarity_edges =
                _recompute_similarity_edges(s.groups, s.global_tables,
                                            s.parameters),
            !.last_updated = s.last_updated + 1]

rebuild_indexes(s) ==
    LET cs1 == prune_group_ids(s.clusters, s.groups)
        cs2 == add_missing_group_ids(cs1, s.groups, 1)
        cs3 == cluster_summaries(cs2, s.groups)
        usage == count_table_usage(s.groups)
        globals == compute_global_tables(s.groups, s.parameters)
    IN  [s EXCEPT
            !.clusters = cs3,
            !.table_usage = usage,
            !.global_tables = globals,
            !.table_nodes = build_table_nodes(usage, globals,
                                s.missing_tables, s.orphaned_tables),
            !.procedure_table_edges =
                build_procedure_table_edges(s.groups, globals, 1),
            !.similarity_edges =
                _recompute_similarity_edges(s.groups, globals, s.parameters),
            !.last_updated = s.last_updated + 1]

----------------------------------------------------------------------------
(* Lookup helpers.  A lookup returns [status, value]: status is "ok" or    *)
(* the exception the code raises.                                          *)

Ok(v) == [status |-> "ok", value |-> v]

Raise(e) == [status |-> e, value |-> None]

\* the display-name comparison without lower()
NameMatchesExactly(display_name, identifier) ==
    /\ display_name # None
    /\ display_name # ""
    /\ display_name = identifier

\* `x.display_name and x.display_name.lower() == identifier_lower`
NameMatches(display_name, identifier) ==
    /\ display_name # None
    /\ display_name # ""
    /\ lower(display_name) = lower(identifier)

find_cluster_id(cs, identifier) ==
    IF identifier \in ClusterKeys(cs) THEN Ok(identifier)
    ELSE LET matches == SelectSeq(cs, LAMBDA c :
                            NameMatches(c.display_name, identifier))
         IN  IF Len(matches) = 1 THEN Ok(matches[1].cluster_id)
             ELSE IF Len(matches) > 1 THEN Raise("ValueError")
             ELSE Raise("KeyError")

find_group_id(gs, identifier) ==
    IF identifier \in GroupKeys(gs) THEN Ok(identifier)
    ELSE LET matches == SelectSeq(gs, LAMBDA g :
                            NameMatches(g.display_name, identifier))
         IN  IF Len(matches) = 1 THEN Ok(matches[1].group_id)
             ELSE IF Len(matches) > 1 THEN Raise("ValueError")
             ELSE Raise("KeyError")

find_group_by_procedure(gs, procedure_name) ==
    LET holders == SelectSeq(gs, LAMBDA g :
                       InSeq(g.procedures, procedure_name))
    IN  IF Len(holders) > 0 THEN Ok(holders[1]) ELSE Raise("KeyError")

----------------------------------------------------------------------------
(* Construction and loading *)

_ensure_trash_cluster(s) ==
    IF "trash" \notin ClusterKeys(s.clusters)
    THEN [s EXCEPT
            !.clusters = Append(@, ClusterInfo("trash", <<>>, "Trash")),
            !.cluster_order = IF InSeq(@, "trash") THEN @
                              ELSE Append(@, "trash")]
    ELSE s

\* ClusterState.__init__
ClusterState(cs, gs, c_order, g_order, globals, missing, orphaned, edges, params) ==
    rebuild_indexes(_ensure_trash_cluster(
        [clusters |-> cs, groups |-> gs, cluster_order |-> c_order,
         group_order |-> g_order, global_tables |-> globals,
         missing_tables |-> missing, orphaned_tables |-> orphaned,
         similarity_edges |-> edges, parameters |-> params,
         table_usage |-> <<>>, table_nodes |-> <<>>,
         procedure_table_edges |-> <<>>, last_updated |-> 0,
         trash |-> <<>>]))

\* `clusters[cluster_id] = cluster` for every item of the payload
RECURSIVE clusters_of_payload(_, _)
clusters_of_payload(items, acc) ==
    IF items = <<>> THEN acc
    ELSE clusters_of_payload(Tail(items), PutCluster(acc, Head(items)))

\* `groups[group_id] = group` for every item of the payload
RECURSIVE groups_of_payload(_, _)
groups_of_payload(items, acc) ==
    IF items = <<>> THEN acc
    ELSE groups_of_payload(Tail(items), PutGroup(acc, Head(items)))

from_json(payload) ==
    LET cs == clusters_of_payload(payload.clusters, <<>>)
        cluster_order_ == [i \in 1..Len(payload.clusters) |->
                              payload.clusters[i].cluster_id]
        gs == groups_of_payload(payload.procedure_groups, <<>>)
        group_order_ == [i \in 1..Len(payload.procedure_groups) |->
                            payload.procedure_groups[i].group_id]
        missing == {payload.table_nodes[i].table :
                       i \in {j \in 1..Len(payload.table_nodes) :
                                 payload.table_nodes[j].is_missing}}
        orphaned == {payload.table_nodes[i].table :
                        i \in {j \in 1..Len(payload.table_nodes) :
                                  payload.table_nodes[j].is_orphaned}}
        state == ClusterState(cs, gs, cluster_order_, group_order_,
                              Range(payload.global_tables), missing, orphaned,
                              payload.similarity_edges, payload.parameters)
    IN  [state EXCEPT !.trash = payload.trash]

\* ClusterState.snapshot
snapshot(s) ==
    [parameters |-> s.parameters,
     global_tables |-> sorted(s.global_tables),
     clusters |-> [i \in 1..Len(SelectSeq(s.cluster_order, LAMBDA cid :
                                   cid \in ClusterKeys(s.clusters))) |->
                      GetCluster(s.clusters,
                          SelectSeq(s.cluster_order, LAMBDA cid :
                              cid \in ClusterKeys(s.clusters))[i])],
     procedure_groups |->
         [i \in 1..Len(SelectSeq(s.group_order, LAMBDA gid :
                           gid \in GroupKeys(s.groups))) |->
             GetGroup(s.groups,
                 SelectSeq(s.group_order, LAMBDA gid :
                     gid \in GroupKeys(s.groups))[i])],
     similarity_edges |-> s.similarity_edges,
     table_nodes |-> s.table_nodes,
     procedure_table_edges |-> s.procedure_table_edges,
     trash |-> s.trash]

----------------------------------------------------------------------------
(* The snapshots the service is started from: clusters.json as written by  *)
(* the initial clustering run (rebuild_clusters_from_catalog).             *)

NoParameters ==
    [similarity_threshold |-> <<>>, min_group_size |-> <<>>,
     min_global_clusters |-> <<>>]

\* P1 and P2 read {t1, t2}, P3 reads {t2, t3}; every table is in the catalog
PayloadA(params) ==
    [parameters |-> params,
     global_tables |-> <<"t2">>,
     clusters |-> <<
        [cluster_id |-> "C0", group_ids |-> <<"PG0">>, display_name |-> None,
         procedures |-> <<"P1", "P2">>, tables |-> <<"t1", "t2">>,
         procedure_count |-> 2],
        [cluster_id |-> "C1", group_ids |-> <<"P3">>, display_name |-> None,
         procedures |-> <<"P3">>, tables |-> <<"t2", "t3">>,
         procedure_count |-> 1]>>,
     procedure_groups |-> <<
        ProcedureGroup("PG0", "C0", <<"P1", "P2">>, <<"t1", "t2">>, FALSE,
                       None),
        ProcedureGroup("P3", "C1", <<"P3">>, <<"t2", "t3">>, TRUE, None)>>,
     similarity_edges |-> <<>>,
     table_nodes |-> build_table_nodes(
         [t \in {"t1", "t2", "t3"} |-> IF t = "t2" THEN 2 ELSE 1],
         {"t2"}, {}, {}),
     trash |-> <<>>]

\* P1 and P2 read {t1, t2}, P3 reads {t2}; t1 is not in the catalog and the
\* catalog table t3 is read by nobody
PayloadB(params) ==
    [parameters |-> params,
     global_tables |-> <<"t2">>,
     clusters |-> <<
        [cluster_id |-> "C0", group_ids |-> <<"PG0">>, display_name |-> None,
         procedures |-> <<"P1", "P2">>, tables |-> <<"t1", "t2">>,
         procedure_count |-> 2],
        [cluster_id |-> "C1", group_ids |-> <<"P3">>, display_name |-> None,
         procedures |-> <<"P3">>, tables |-> <<"t2">>,
         procedure_count |-> 1]>>,
     procedure_groups |-> <<
        ProcedureGroup("PG0", "C0", <<"P1", "P2">>, <<"t1", "t2">>, FALSE,
                       None),
        ProcedureGroup("P3", "C1", <<"P3">>, <<"t2">>, TRUE, None)>>,
     similarity_edges |-> <<>>,
     table_nodes |-> build_table_nodes(
         [t \in {"t1", "t2"} |-> IF t = "t2" THEN 2 ELSE 1],
         {"t2"}, {"t1"}, {"t3"}),
     trash |-> <<>>]

----------------------------------------------------------------------------
(* Mutation operations.  An operation maps a state and its arguments to    *)
(* [s, status, ret]: the state it leaves, "ok" or the exception that       *)
(* propagates to the caller, and the value it returns.                     *)

Done(s, ret) == [s |-> s, status |-> "ok", ret |-> ret]

Fail(s, e) == [s |-> s, status |-> e, ret |-> None]

rename_cluster(s, cluster_identifier, new_name) ==
    LET found == find_cluster_id(s.clusters, cluster_identifier)
    IN  IF found.status # "ok" THEN Fail(s, found.status)
        ELSE LET cluster == GetCluster(s.clusters, found.value)
                 s1 == [s EXCEPT !.clusters = PutCluster(@,
                           [cluster EXCEPT !.display_name = strip(new_name)])]
             IN  Done(rebuild_indexes(s1), None)

rename_group(s, group_identifier, new_name) ==
    LET found == find_group_id(s.groups, group_identifier)
    IN  IF found.status # "ok" THEN Fail(s, found.status)
        ELSE LET group == GetGroup(s.groups, found.value)
                 s1 == [s EXCEPT !.groups = PutGroup(@,
                           [group EXCEPT !.display_name = strip(new_name)])]
             IN  Done(rebuild_indexes(s1), None)

move_group(s, group_identifier, target_cluster_identifier) ==
    LET g_found == find_group_id(s.groups, group_identifier)
        c_found == find_cluster_id(s.clusters, target_cluster_identifier)
    IN  IF g_found.status # "ok" THEN Fail(s, g_found.status)
        ELSE IF c_found.status # "ok" THEN Fail(s, c_found.status)
        ELSE
        LET group_id == g_found.value
            target_cluster_id == c_found.value
            group == GetGroup(s.groups, group_id)
        IN  IF group.cluster_id = target_cluster_id
            THEN Done(s, None)
            ELSE
            LET cs1 == IF group.cluster_id \in ClusterKeys(s.clusters)
                       THEN PutCluster(s.clusters,
                                [GetCluster(s.clusters, group.cluster_id)
                                    EXCEPT !.group_ids = Without(@, group_id)])
                       ELSE s.clusters
                target_cluster == GetCluster(cs1, target_cluster_id)
                cs2 == IF ~InSeq(target_cluster.group_ids, group_id)
                       THEN PutCluster(cs1, [target_cluster EXCEPT
                                !.group_ids = Append(@, group_id)])
                       ELSE cs1
                s1 == [s EXCEPT
                          !.clusters = cs2,
                          !.groups = PutGroup(@, [group EXCEPT
                                         !.cluster_id = target_cluster_id])]
            IN  Done(rebuild_indexes(s1), None)

\* candidate = first; while candidate in self.groups: suffix += 1;
\* candidate = f"{stem}{suffix}"
RECURSIVE next_free_group_id(_, _, _, _)
next_free_group_id(gs, candidate, stem, suffix) ==
    IF candidate \notin GroupKeys(gs) THEN candidate
    ELSE next_free_group_id(gs, stem \o ToString(suffix + 1), stem, suffix + 1)

\* move_procedure leaving the source group's flag and name as they were
shrink_without_flag(group, procedure_name) ==
    [group EXCEPT !.procedures = Without(@, procedure_name)]

\* the source group of move_procedure once the procedure has left it
shrink_source_group(group, procedure_name) ==
    LET procs == Without(group.procedures, procedure_name)
    IN  IF Len(procs) <= 1
        THEN LET single == (Len(procs) = 1)
             IN  [group EXCEPT
                     !.procedures = procs,
                     !.is_singleton = single,
                     !.display_name =
                         IF single /\ (@ = None \/ @ = "")
                         THEN procs[1] ELSE @]
        ELSE [group EXCEPT !.procedures = procs]

move_procedure(s, procedure_name, target_cluster_identifier) ==
    LET c_found == find_cluster_id(s.clusters, target_cluster_identifier)
        g_found == find_group_by_procedure(s.groups, procedure_name)
    IN  IF c_found.status # "ok" THEN Fail(s, c_found.status)
        ELSE IF g_found.status # "ok" THEN Fail(s, g_found.status)
        ELSE
        LET target_cluster_id == c_found.value
            group == g_found.value
        IN  IF group.cluster_id = target_cluster_id /\ group.is_singleton
            THEN Done(s, <<group.group_id, target_cluster_id>>)
            ELSE IF group.is_singleton
            THEN LET moved == move_group(s, group.group_id, target_cluster_id)
                 IN  IF moved.status # "ok" THEN moved
                     ELSE Done(moved.s, <<group.group_id, target_cluster_id>>)
            ELSE
            LET gs1 == PutGroup(s.groups,
                           shrink_source_group(group, procedure_name))
                candidate_id == next_free_group_id(gs1, procedure_name,
                                    procedure_name \o "__", 1)
                new_group == ProcedureGroup(candidate_id, target_cluster_id,
                                 <<procedure_name>>, group.tables, TRUE,
                                 procedure_name)
                target_cluster == GetCluster(s.clusters, target_cluster_id)
                s1 == [s EXCEPT
                          !.groups = PutGroup(gs1, new_group),
                          !.group_order = Append(@, candidate_id),
                          !.clusters = PutCluster(@, [target_cluster EXCEPT
                              !.group_ids = Append(@, candidate_id)])]
            IN  Done(rebuild_indexes(s1), <<candidate_id, target_cluster_id>>)

----------------------------------------------------------------------------
(* Trash operations *)

\* TrashItem(item_type, item_id, data, deleted_at); deleted_at is the
\* reading of the clock when the call is made
TrashItem(item_type, item_id, data, deleted_at) ==
    [item_type |-> item_type, item_id |-> item_id, data |-> data,
     deleted_at |-> deleted_at]

\* delete_procedure orphaning every table of the group, used or not
all_tables_to_orphan(gs, group, procedure_name) == group.tables

\* the tables of delete_procedure's group that nothing else active uses
tables_to_orphan(gs, group, procedure_name) ==
    LET uses(g, table) ==
            IF g.cluster_id = "trash" THEN 0
            ELSE IF g.group_id = group.group_id
            THEN (IF Without(g.procedures, procedure_name) # <<>>
                  THEN 1 ELSE 0)
            ELSE IF InSeq(g.tables, table) THEN 1 ELSE 0
        usage_count(table) ==
            SumSeq([i \in 1..Len(gs) |-> uses(gs[i], table)])
    IN  SelectSeq(group.tables, LAMBDA table : usage_count(table) = 0)

\* delete_procedure without its auto-removal loop
purge_nothing(s) == s

\* "Auto-remove virtual entities: tables that are BOTH missing AND orphaned"
purge_missing_orphaned(s) ==
    LET both == s.missing_tables \cap s.orphaned_tables
    IN  [s EXCEPT !.missing_tables = @ \ both,
                  !.orphaned_tables = @ \ both]

\* delete_procedure leaving the trashed group without its singleton flag
unflagged_trash_group(trash_group_id, procedure_name) ==
    ProcedureGroup(trash_group_id, "trash", <<procedure_name>>, <<>>, FALSE,
                   procedure_name)

\* the singleton group delete_procedure creates in the trash cluster
new_trash_group(trash_group_id, procedure_name) ==
    ProcedureGroup(trash_group_id, "trash", <<procedure_name>>, <<>>, TRUE,
                   procedure_name)

\* delete_procedure once the group is known to be outside the trash
delete_procedure_from(s, group, procedure_name) ==
    LET original_group_id == group.group_id
        original_cluster_id == group.cluster_id
        procedure_tables == group.tables
        to_orphan == tables_to_orphan(s.groups, group, procedure_name)
        trash_item ==
            TrashItem("procedure", procedure_name,
                [procedure_name |-> procedure_name,
                 original_group_id |-> original_group_id,
                 original_cluster_id |-> original_cluster_id,
                 tables |-> procedure_tables],
                s.last_updated)
        procs == Without(group.procedures, procedure_name)
        \* the trash item is appended and the procedure has left its group
        s1 == [s EXCEPT
                  !.trash = Append(@, trash_item),
                  !.groups = PutGroup(@, [group EXCEPT !.procedures = procs])]
        empty_group_deleted == (Len(procs) = 0)
        \* the empty group has left its cluster's listing
        s2 == IF empty_group_deleted
                 /\ original_cluster_id \in ClusterKeys(s1.clusters)
              THEN [s1 EXCEPT !.clusters = PutCluster(@,
                       [GetCluster(s1.clusters, original_cluster_id) EXCEPT
                           !.group_ids = Without(@, original_group_id)])]
              ELSE s1
    IN  IF empty_group_deleted /\ ~InSeq(s2.group_order, original_group_id)
        THEN Fail(s2, "ValueError")   \* list.remove(x): x not in list
        ELSE
        LET s3 == IF empty_group_deleted
                  THEN [s2 EXCEPT
                           !.group_order = RemoveFirst(@, original_group_id),
                           !.groups = DelGroup(@, original_group_id)]
                  ELSE [s2 EXCEPT !.groups = PutGroup(@,
                           [GetGroup(s2.groups, original_group_id) EXCEPT
                               !.is_singleton = (Len(procs) = 1),
                               !.display_name =
                                   IF Len(procs) = 1 /\ (@ = None \/ @ = "")
                                   THEN procs[1] ELSE @])]
            trash_group_id ==
                next_free_group_id(s3.groups, "trash_" \o procedure_name,
                                   "trash_" \o procedure_name \o "_", 1)
            s4 == [s3 EXCEPT
                      !.groups = PutGroup(@,
                          new_trash_group(trash_group_id, procedure_name)),
                      !.group_order = Append(@, trash_group_id),
                      !.clusters = PutCluster(@,
                          [GetCluster(s3.clusters, "trash") EXCEPT
                              !.group_ids = Append(@, trash_group_id)]),
                      !.orphaned_tables = @ \cup Range(to_orphan)]
            s5 == purge_missing_orphaned(s4)
        IN  Done(rebuild_indexes(s5),
                 [deleted_procedure |-> procedure_name,
                  original_group |-> original_group_id,
                  original_cluster |-> original_cluster_id,
                  empty_group_deleted |-> empty_group_deleted,
                  moved_to_trash_group |-> trash_group_id,
                  tables_now_orphaned |-> to_orphan,
                  tables_auto_removed |->
                      s4.missing_tables \cap s4.orphaned_tables])

\* delete_procedure logging the trash item before it checks the group
delete_procedure_logging_first(s, procedure_name) ==
    LET g_found == find_group_by_procedure(s.groups, procedure_name)
    IN  IF g_found.status # "ok" THEN Fail(s, g_found.status)
        ELSE IF g_found.value.cluster_id = "trash"
        THEN Fail([s EXCEPT !.trash = Append(@,
                      TrashItem("procedure", procedure_name,
                          [procedure_name |-> procedure_name,
                           original_group_id |-> g_found.value.group_id,
                           original_cluster_id |-> "trash",
                           tables |-> g_found.value.tables],
                          s.last_updated))],
                  "ValueError")
        ELSE delete_procedure_from(s, g_found.value, procedure_name)

delete_procedure(s, procedure_name) ==
    LET g_found == find_group_by_procedure(s.groups, procedure_name)
    IN  IF g_found.status # "ok" THEN Fail(s, g_found.status)
        ELSE IF g_found.value.cluster_id = "trash" THEN Fail(s, "ValueError")
        ELSE delete_procedure_from(s, g_found.value, procedure_name)

\* delete_table counting the groups in the trash among the referencing ones
referencing_groups_any(gs, table_name) ==
    LET refs == SelectSeq(gs, LAMBDA g : InSeq(g.tables, table_name))
    IN  [i \in 1..Len(refs) |-> refs[i].group_id]

\* the group ids delete_table records: non-trash groups listing the table
referencing_groups_of(gs, table_name) ==
    LET refs == SelectSeq(gs, LAMBDA g :
                    InSeq(g.tables, table_name) /\ g.cluster_id # "trash")
    IN  [i \in 1..Len(refs) |-> refs[i].group_id]

\* delete_table without its "not found in system" check
any_table_in_system(is_global, is_orphaned, referencing_groups) == TRUE

\* "Check if table exists in system"
table_in_system(is_global, is_orphaned, referencing_groups) ==
    is_global \/ is_orphaned \/ referencing_groups # <<>>

delete_table(s, table_name) ==
    IF table_name \in s.missing_tables THEN Fail(s, "ValueError")
    ELSE
    LET is_global == table_name \in s.global_tables
        is_orphaned == table_name \in s.orphaned_tables
        referencing_groups == referencing_groups_of(s.groups, table_name)
    IN  IF ~table_in_system(is_global, is_orphaned, referencing_groups)
        THEN Fail(s, "KeyError")
        ELSE
        LET will_become_missing == Len(referencing_groups) > 0
            trash_item ==
                TrashItem("table", table_name,
                    [table_name |-> table_name,
                     was_global |-> is_global,
                     was_orphaned |-> is_orphaned,
                     referencing_groups |-> referencing_groups],
                    s.last_updated)
            s1 == [s EXCEPT
                      !.trash = Append(@, trash_item),
                      !.global_tables = @ \ {table_name},
                      !.orphaned_tables = @ \ {table_name},
                      !.missing_tables = IF will_become_missing
                                         THEN @ \cup {table_name} ELSE @]
            auto_removed == /\ table_name \in s1.missing_tables
                            /\ table_name \in s1.orphaned_tables
            s2 == IF auto_removed
                  THEN [s1 EXCEPT !.missing_tables = @ \ {table_name},
                                  !.orphaned_tables = @ \ {table_name}]
                  ELSE s1
        IN  Done(rebuild_indexes(s2),
                 [deleted_table |-> table_name,
                  was_global |-> is_global,
                  was_orphaned |-> is_orphaned,
                  became_missing |-> will_become_missing,
                  referencing_groups |-> referencing_groups,
                  auto_removed |-> auto_removed])


\* the first group of the target cluster's listing whose table set equals
\* the procedure's; None when there is none
exact_match_group_of(s, target_cluster_id, procedure_tables) ==
    LET listed == GetCluster(s.clusters, target_cluster_id).group_ids
        hits == SelectSeq(listed, LAMBDA gid :
                    /\ gid \in GroupKeys(s.groups)
                    /\ Range(GetGroup(s.groups, gid).tables)
                           = procedure_tables)
    IN  IF Len(hits) > 0 THEN hits[1] ELSE None

\* "Remove procedure from trash group" and, if that empties the group,
\* delete the group; status is the exception list.remove raises
leave_trash_group(s, trash_group_id, procedure_name) ==
    LET trash_group == GetGroup(s.groups, trash_group_id)
        procs == RemoveFirst(trash_group.procedures, procedure_name)
        s1 == [s EXCEPT !.groups = PutGroup(@,
                  [trash_group EXCEPT !.procedures = procs])]
    IN  IF procs # <<>> THEN Done(s1, None)
        ELSE IF ~InSeq(GetCluster(s1.clusters, "trash").group_ids,
                       trash_group_id)
        THEN Fail(s1, "ValueError")
        ELSE
        LET s2 == [s1 EXCEPT !.clusters = PutCluster(@,
                      [GetCluster(s1.clusters, "trash") EXCEPT
                          !.group_ids = RemoveFirst(@, trash_group_id)])]
        IN  IF ~InSeq(s2.group_order, trash_group_id)
            THEN Fail(s2, "ValueError")
            ELSE Done([s2 EXCEPT
                          !.group_order = RemoveFirst(@, trash_group_id),
                          !.groups = DelGroup(@, trash_group_id)], None)

\* the table set restore_procedure gives the restored procedure
restored_tables_of(s, trash_group) == Range(trash_group.tables)

\* restore_procedure once its arguments are validated; table_list is the
\* order in which list(procedure_tables) enumerates the set
restore_procedure_from(s, trash_group, procedure_name, target_cluster_id, force_new_group, table_list) ==
    LET procedure_tables == restored_tables_of(s, trash_group)
        tables_reinserted == procedure_tables \cap s.missing_tables
        exact_match_group ==
            IF ~force_new_group
            THEN exact_match_group_of(s, target_cluster_id, procedure_tables)
            ELSE None
        new_group_id == next_free_group_id(s.groups, procedure_name,
                            procedure_name \o "_", 1)
        s1 == IF exact_match_group # None
              THEN [s EXCEPT !.groups = PutGroup(@,
                       [GetGroup(s.groups, exact_match_group) EXCEPT
                           !.procedures = Append(@, procedure_name),
                           !.is_singleton = FALSE])]
              ELSE [s EXCEPT
                       !.groups = PutGroup(@,
                           ProcedureGroup(new_group_id, target_cluster_id,
                               <<procedure_name>>, table_list, TRUE,
                               procedure_name)),
                       !.group_order = Append(@, new_group_id),
                       !.clusters = PutCluster(@,
                           [GetCluster(s.clusters, target_cluster_id) EXCEPT
                               !.group_ids = Append(@, new_group_id)])]
        left == leave_trash_group(s1, trash_group.group_id, procedure_name)
    IN  IF left.status # "ok" THEN left
        ELSE
        LET s2 == [left.s EXCEPT !.orphaned_tables = @ \ procedure_tables]
            joined == exact_match_group # None
        IN  Done(rebuild_indexes(s2),
                 [restored_procedure |-> procedure_name,
                  target_cluster |-> target_cluster_id,
                  target_group |-> IF joined THEN exact_match_group
                                   ELSE new_group_id,
                  action |-> IF joined THEN "joined_existing_group"
                             ELSE "created_new_group",
                  exact_match |-> joined,
                  tables_reinserted |-> tables_reinserted,
                  tables_unorphaned |->
                      procedure_tables \cap s.orphaned_tables])

restore_procedure(s, procedure_name, target_cluster_id, force_new_group, table_list) ==
    LET g_found == find_group_by_procedure(s.groups, procedure_name)
    IN  IF g_found.status # "ok" THEN Fail(s, g_found.status)
        ELSE IF g_found.value.cluster_id # "trash" THEN Fail(s, "ValueError")
        ELSE IF target_cluster_id \notin ClusterKeys(s.clusters)
        THEN Fail(s, "KeyError")
        ELSE IF target_cluster_id = "trash" THEN Fail(s, "ValueError")
        ELSE restore_procedure_from(s, g_found.value, procedure_name,
                 target_cluster_id, force_new_group, table_list)

\* restore_table without "Restore table status flags"
restore_table_unflagged(s, trash_index) ==
    IF trash_index < 0 \/ trash_index >= Len(s.trash)
    THEN Fail(s, "ValueError")
    ELSE
    LET trash_item == s.trash[trash_index + 1]
    IN  IF trash_item.item_type # "table" THEN Fail(s, "ValueError")
        ELSE
        LET table_name == trash_item.data.table_name
            s1 == [s EXCEPT
                      !.missing_tables = @ \ {table_name},
                      !.trash = PopAt(@, trash_index)]
        IN  Done(rebuild_indexes(s1),
                 [restored_table |-> table_name,
                  was_global |-> trash_item.data.was_global,
                  was_orphaned |-> trash_item.data.was_orphaned])

\* restore_table leaving the restored record in the trash log
restore_table_keeping_record(s, trash_index) ==
    IF trash_index < 0 \/ trash_index >= Len(s.trash)
    THEN Fail(s, "ValueError")
    ELSE
    LET trash_item == s.trash[trash_index + 1]
    IN  IF trash_item.item_type # "table" THEN Fail(s, "ValueError")
        ELSE
        LET table_name == trash_item.data.table_name
            s1 == [s EXCEPT
                      !.missing_tables = @ \ {table_name},
                      !.orphaned_tables = IF trash_item.data.was_orphaned
                                          THEN @ \cup {table_name} ELSE @]
        IN  Done(rebuild_indexes(s1),
                 [restored_table |-> table_name,
                  was_global |-> trash_item.data.was_global,
                  was_orphaned |-> trash_item.data.was_orphaned])

restore_table(s, trash_index) ==
    IF trash_index < 0 \/ trash_index >= Len(s.trash)
    THEN Fail(s, "ValueError")
    ELSE
    LET trash_item == s.trash[trash_index + 1]
    IN  IF trash_item.item_type # "table" THEN Fail(s, "ValueError")
        ELSE
        LET table_name == trash_item.data.table_name
            was_global == trash_item.data.was_global
            was_orphaned == trash_item.data.was_orphaned
            s1 == [s EXCEPT
                      !.missing_tables = @ \ {table_name},
                      !.orphaned_tables = IF was_orphaned
                                          THEN @ \cup {table_name} ELSE @,
                      !.trash = PopAt(@, trash_index)]
        IN  Done(rebuild_indexes(s1),
                 [restored_table |-> table_name,
                  was_global |-> was_global,
                  was_orphaned |-> was_orphaned])

\* empty_trash deleting none of the trashed groups
drop_no_groups(s, gids, i) == Done(s, None)

\* the loop of empty_trash over list(trash_cluster.group_ids), from the
\* i-th id on; status is the exception list.remove raises
RECURSIVE drop_trash_groups(_, _, _)
drop_trash_groups(s, gids, i) ==
    IF i > Len(gids) THEN Done(s, None)
    ELSE IF gids[i] \notin GroupKeys(s.groups)
    THEN drop_trash_groups(s, gids, i + 1)
    ELSE IF ~InSeq(s.group_order, gids[i]) THEN Fail(s, "ValueError")
    ELSE drop_trash_groups(
             [s EXCEPT !.group_order = RemoveFirst(@, gids[i]),
                       !.groups = DelGroup(@, gids[i])],
             gids, i + 1)

empty_trash(s) ==
    LET table_count == Len(SelectSeq(s.trash, LAMBDA item :
                               item.item_type = "table"))
        has_trash == "trash" \in ClusterKeys(s.clusters)
        gids == IF has_trash
                THEN GetCluster(s.clusters, "trash").group_ids ELSE <<>>
        listed == SelectSeq(gids, LAMBDA gid : gid \in GroupKeys(s.groups))
        procedures_deleted ==
            LET RECURSIVE cat(_)
                cat(i) == IF i > Len(listed) THEN <<>>
                          ELSE GetGroup(s.groups, listed[i]).procedures
                               \o cat(i + 1)
            IN  cat(1)
        dropped == drop_trash_groups(s, gids, 1)
    IN  IF dropped.status # "ok" THEN dropped
        ELSE
        LET s1 == IF has_trash
                  THEN [dropped.s EXCEPT !.clusters = PutCluster(@,
                           [GetCluster(dropped.s.clusters, "trash") EXCEPT
                               !.group_ids = <<>>])]
                  ELSE dropped.s
            s2 == [s1 EXCEPT !.trash = <<>>]
        IN  Done(rebuild_indexes(s2),
                 [deleted_tables |-> table_count,
                  deleted_procedures |-> Len(procedures_deleted),
                  procedures |-> procedures_deleted,
                  total |-> table_count + Len(procedures_deleted)])

----------------------------------------------------------------------------
(* Cluster administration *)

add_cluster(s, cluster_id, display_name) ==
    IF cluster_id \in ClusterKeys(s.clusters) THEN Fail(s, "ValueError")
    ELSE
    LET name == IF display_name = None \/ display_name = ""
                THEN cluster_id ELSE display_name
        s1 == [s EXCEPT
                  !.clusters = Append(@, ClusterInfo(cluster_id, <<>>, name)),
                  !.cluster_order = Append(@, cluster_id)]
    IN  Done(rebuild_indexes(s1),
             [created_cluster |-> cluster_id, display_name |-> name])

\* delete_cluster_if_empty without its guard on the trash cluster
no_special_cluster(cluster_id) == FALSE

\* "Don't allow deleting special clusters"
is_special_cluster(cluster_id) == cluster_id = "trash"

\* delete_cluster_if_empty without its emptiness check
any_cluster_is_empty(cluster) == TRUE

\* "Check if cluster is empty"
cluster_is_empty(cluster) == cluster.group_ids = <<>>

delete_cluster_if_empty(s, cluster_identifier) ==
    LET found == find_cluster_id(s.clusters, cluster_identifier)
    IN  IF found.status # "ok" THEN Fail(s, found.status)
        ELSE
        LET cluster_id == found.value
            cluster == GetCluster(s.clusters, cluster_id)
        IN  IF is_special_cluster(cluster_id) THEN Fail(s, "ValueError")
            ELSE IF ~cluster_is_empty(cluster) THEN Fail(s, "ValueError")
            ELSE IF ~InSeq(s.cluster_order, cluster_id)
            THEN Fail(s, "ValueError")   \* list.remove(x): x not in list
            ELSE Done([s EXCEPT
                          !.cluster_order = RemoveFirst(@, cluster_id),
                          !.clusters = DelCluster(@, cluster_id)],
                      [deleted_cluster |-> cluster_id])

----------------------------------------------------------------------------
(* The initial clustering run: clustering.py.  Groups and cluster members  *)
(* are 0-based indexes into the list of groups, as in the code.            *)

startswith(s, prefix) ==
    /\ Len(s) >= Len(prefix)
    /\ SubSeq(s, 1, Len(prefix)) = prefix

\* `'.' in s`
has_dot(s) == \E i \in 1..Len(s) : SubSeq(s, i, i) = "."

\* s.split('.')[-1]
last_part(s) ==
    IF ~has_dot(s) THEN s
    ELSE LET k == CHOOSE i \in 1..Len(s) :
                      /\ SubSeq(s, i, i) = "."
                      /\ \A j \in (i + 1)..Len(s) : SubSeq(s, j, j) # "."
         IN  SubSeq(s, k + 1, Len(s))

is_likely_alias(safe_name) ==
    \/ safe_name = ""
    \/ Len(safe_name) = 1
    \/ IF has_dot(safe_name) THEN Len(last_part(safe_name)) <= 1
       ELSE Len(safe_name) <= 2

legacy_system_tables ==
    {"sysobjects", "syscolumns", "sysindexes", "systypes", "sysdepends",
     "sysreferences", "sysusers", "syspermissions", "sysconstraints",
     "sysfiles", "sysfilegroups", "sysforeignkeys", "sysfulltextcatalogs",
     "sysindexkeys", "sysmembers", "sysprotects", "sysallocunits",
     "syscacheobjects", "syscharsets", "sysconfigures", "syscurconfigs",
     "sysdatabases", "syslanguages", "syslockinfo", "syslogins",
     "sysmessages", "sysoledbusers", "sysperfinfo", "sysprocesses",
     "sysremotelogins", "sysservers"}

\* the names in use hold no middle dot, which the code replaces by "."
is_system_table(safe_name, exclude_system_tables) ==
    IF ~exclude_system_tables \/ safe_name = "" THEN FALSE
    ELSE LET normalized == lower(safe_name)
             table_name == last_part(normalized)
         IN  \/ startswith(normalized, "sys.")
             \/ startswith(normalized, "information_schema.")
             \/ table_name \in legacy_system_tables
             \/ startswith(table_name, "msreplication_")
             \/ table_name = "dtproperties"
             \/ startswith(table_name, "trace_xe_")

\* table_refs of one procedure, keeping the case of the catalog's names
table_refs_cased(proc_body, exclude_system_tables) ==
    {safe_name \in Range(proc_body.Reads) \cup Range(proc_body.Writes) :
        /\ safe_name # ""
        /\ ~is_likely_alias(safe_name)
        /\ ~is_system_table(safe_name, exclude_system_tables)}

\* table_refs of one procedure: the inner loops of gather_procedure_groups
\* (exclude_patterns is empty)
table_refs(proc_body, exclude_system_tables) ==
    {lower(safe_name) :
        safe_name \in {r \in Range(proc_body.Reads)
                                 \cup Range(proc_body.Writes) :
                          /\ r # ""
                          /\ ~is_likely_alias(r)
                          /\ ~is_system_table(r, exclude_system_tables)}}

\* tuple comparison, element by element
RECURSIVE tuple_less(_, _)
tuple_less(a, b) ==
    IF a = <<>> THEN b # <<>>
    ELSE IF b = <<>> THEN FALSE
    ELSE IF Head(a) # Head(b) THEN Rank[Head(a)] < Rank[Head(b)]
    ELSE tuple_less(Tail(a), Tail(b))

\* sorted(raw_groups.items()): the keys are distinct tuples
RECURSIVE sorted_keys(_)
sorted_keys(S) ==
    IF S = {} THEN <<>>
    ELSE LET m == CHOOSE x \in S : \A y \in S \ {x} : tuple_less(x, y)
         IN  <<m>> \o sorted_keys(S \ {m})

\* raw_groups: key -> the procedures appended to it
raw_groups(procedures, exclude_system_tables) ==
    LET key(i) == sorted(table_refs(procedures[i], exclude_system_tables))
        kept == {i \in 1..Len(procedures) : key(i) # <<>>}
    IN  [k \in {key(i) : i \in kept} |->
            {procedures[i].name : i \in {j \in kept : key(j) = k}}]

PGIds == <<"PG0", "PG1">>

\* the loop over sorted(raw_groups.items())
RECURSIVE number_groups(_, _, _)
number_groups(keys, raw, pg_counter) ==
    IF keys = <<>> THEN <<>>
    ELSE LET procedures_for_group == sorted(raw[Head(keys)])
             is_singleton == Len(procedures_for_group) = 1
             group_id == IF is_singleton THEN procedures_for_group[1]
                         ELSE PGIds[pg_counter + 1]
         IN  <<[group_id |-> group_id,
                procedures |-> procedures_for_group,
                tables |-> Head(keys),
                is_singleton |-> is_singleton,
                cluster_id |-> None]>>
             \o number_groups(Tail(keys), raw,
                              IF is_singleton THEN pg_counter
                              ELSE pg_counter + 1)

gather_procedure_groups(cat, exclude_system_tables) ==
    LET existing_tables == {lower(table_name) : table_name \in cat.Tables}
        raw == raw_groups(cat.Procedures, exclude_system_tables)
        gs == number_groups(sorted_keys(DOMAIN raw), raw, 0)
        accessed_tables == UNION {Range(gs[i].tables) : i \in 1..Len(gs)}
    IN  [groups |-> gs,
         table_usage |->
             [t \in accessed_tables |->
                 Cardinality({i \in 1..Len(gs) : t \in Range(gs[i].tables)})],
         missing_tables |-> accessed_tables \ existing_tables,
         orphaned_tables |-> existing_tables \ accessed_tables]

\* pair_intersections with every group taken as qualifying
pair_intersections_unfiltered(gs, min_group_size) ==
    LET table_set(idx) == Range(gs[idx + 1].tables)
        every == 0..(Len(gs) - 1)
        pairs == {pr \in every \X every :
                     /\ pr[1] < pr[2]
                     /\ table_set(pr[1]) \cap table_set(pr[2]) # {}}
    IN  [pr \in pairs |->
            Cardinality(table_set(pr[1]) \cap table_set(pr[2]))]

\* pair_intersections of build_similarity_edges: the pairs left < right of
\* qualifying groups that the inverted index puts together, with the number
\* of tables that do
pair_intersections(gs, min_group_size) ==
    LET table_set(idx) == Range(gs[idx + 1].tables)
        floor == IF min_group_size > 0 THEN min_group_size ELSE 0
        relevant == {idx \in 0..(Len(gs) - 1) :
                        Cardinality(table_set(idx)) >= floor}
        index_by_table(t) == {idx \in relevant : t \in table_set(idx)}
        all_tables == UNION {table_set(idx) : idx \in 0..(Len(gs) - 1)}
        pairs == {pr \in relevant \X relevant :
                     /\ pr[1] < pr[2]
                     /\ \E t \in all_tables :
                            {pr[1], pr[2]} \subseteq index_by_table(t)}
    IN  [pr \in pairs |->
            Cardinality({t \in all_tables :
                            {pr[1], pr[2]} \subseteq index_by_table(t)})]

\* the orders in which index_by_table can hold its keys: the groups bring
\* their tables in one after the other, and `for table in table_set` walks
\* the tables of one group in the order the Python set enumerates them
RECURSIVE index_orders(_, _, _)
index_orders(gs, i, seen) ==
    IF i > Len(gs) THEN {<<>>}
    ELSE LET fresh == Range(gs[i].tables) \ seen
         IN  {head \o rest :
                 head \in ListsOf(fresh),
                 rest \in index_orders(gs, i + 1, seen \cup fresh)}

\* the keys of pair_intersections in the order they are inserted: table by
\* table, combinations(candidates, 2) of the sorted qualifying groups
RECURSIVE pair_order(_, _, _, _)
pair_order(gs, min_group_size, tables, acc) ==
    IF tables = <<>> THEN acc
    ELSE LET n == Len(gs)
             counted == pair_intersections(gs, min_group_size)
             combinations ==
                 SelectSeq([k \in 1..(n * n) |-> <<(k - 1) \div n, (k - 1) % n>>],
                           LAMBDA pr :
                               /\ pr \in DOMAIN counted
                               /\ Head(tables) \in Range(gs[pr[1] + 1].tables)
                               /\ Head(tables) \in Range(gs[pr[2] + 1].tables)
                               /\ ~InSeq(acc, pr))
         IN  pair_order(gs, min_group_size, Tail(tables), acc \o combinations)

\* build_similarity_edges without its threshold test
all_similarity_edges(gs, min_group_size, threshold, table_order) ==
    LET counted == pair_intersections(gs, min_group_size)
        size(idx) == Cardinality(Range(gs[idx + 1].tables))
        union(pr) == size(pr[1]) + size(pr[2]) - counted[pr]
        kept == SelectSeq(pair_order(gs, min_group_size, table_order, <<>>),
                          LAMBDA pr : union(pr) > 0)
    IN  [k \in 1..Len(kept) |->
            [left |-> kept[k][1], right |-> kept[k][2],
             similarity |-> Frac(counted[kept[k]], union(kept[k]))]]

\* build_similarity_edges, index_by_table holding its keys in table_order
build_similarity_edges(gs, min_group_size, threshold, table_order) ==
    LET counted == pair_intersections(gs, min_group_size)
        size(idx) == Cardinality(Range(gs[idx + 1].tables))
        union(pr) == size(pr[1]) + size(pr[2]) - counted[pr]
        kept == SelectSeq(pair_order(gs, min_group_size, table_order, <<>>),
                          LAMBDA pr :
                              /\ union(pr) > 0
                              /\ FracGeq(Frac(counted[pr], union(pr)),
                                         threshold))
    IN  [k \in 1..Len(kept) |->
            [left |-> kept[k][1], right |-> kept[k][2],
             similarity |-> Frac(counted[kept[k]], union(kept[k]))]]

\* phase 1 of build_clusters_two_phase: the groups without an edge
isolated_groups(gs, es) ==
    LET adjacency(idx) ==
            {e.right : e \in {x \in Range(es) : x.left = idx}}
            \cup {e.left : e \in {x \in Range(es) : x.right = idx}}
    IN  SelectSeq([i \in 1..Len(gs) |-> i - 1],
                  LAMBDA idx : adjacency(idx) = {})

\* list.sort(key=lambda idx: len(groups[idx]["tables"]), reverse=True):
\* stable, so groups of equal table count keep their order
RECURSIVE sort_by_table_count(_, _)
sort_by_table_count(gs, S) ==
    IF S = {} THEN <<>>
    ELSE LET m == CHOOSE x \in S : \A y \in S \ {x} :
                      \/ Len(gs[x + 1].tables) > Len(gs[y + 1].tables)
                      \/ /\ Len(gs[x + 1].tables) = Len(gs[y + 1].tables)
                         /\ x < y
         IN  <<m>> \o sort_by_table_count(gs, S \ {m})

\* the other groups, in the order phase 2 processes them
sorted_connected_groups(gs, es) ==
    sort_by_table_count(gs,
        (0..(Len(gs) - 1)) \ Range(isolated_groups(gs, es)))

\* the loop over the existing clusters without its tie-break: the first
\* cluster of the highest similarity is kept
RECURSIVE best_cluster_first(_, _, _, _, _)
best_cluster_first(gs, cls, group_tables, cluster_idx, best) ==
    IF cluster_idx >= Len(cls) THEN best
    ELSE LET cluster_tables ==
                 UNION {Range(gs[m + 1].tables) :
                            m \in Range(cls[cluster_idx + 1])}
             intersection == Cardinality(group_tables \cap cluster_tables)
             union == Cardinality(group_tables \cup cluster_tables)
             similarity == IF union > 0 THEN Frac(intersection, union)
                           ELSE Frac(0, 1)
         IN  best_cluster_first(gs, cls, group_tables, cluster_idx + 1,
                 IF FracGt(similarity, best.best_similarity)
                 THEN [best_cluster_idx |-> cluster_idx,
                       best_similarity |-> similarity]
                 ELSE best)

\* the loop over the existing clusters, from cluster_idx on
RECURSIVE best_cluster(_, _, _, _, _)
best_cluster(gs, cls, group_tables, cluster_idx, best) ==
    IF cluster_idx >= Len(cls) THEN best
    ELSE LET cluster_members == cls[cluster_idx + 1]
             cluster_tables ==
                 UNION {Range(gs[m + 1].tables) : m \in Range(cluster_members)}
             intersection == Cardinality(group_tables \cap cluster_tables)
             union == Cardinality(group_tables \cup cluster_tables)
             similarity == IF union > 0 THEN Frac(intersection, union)
                           ELSE Frac(0, 1)
             better ==
                 IF FracGt(similarity, best.best_similarity)
                 THEN [best_cluster_idx |-> cluster_idx,
                       best_similarity |-> similarity]
                 ELSE IF /\ similarity = best.best_similarity
                         /\ best.best_cluster_idx >= 0
                         /\ Len(cluster_members)
                                < Len(cls[best.best_cluster_idx + 1])
                 THEN [best EXCEPT !.best_cluster_idx = cluster_idx]
                 ELSE best
         IN  best_cluster(gs, cls, group_tables, cluster_idx + 1, better)

NoBest == [best_cluster_idx |-> -1, best_similarity |-> [num |-> -1, den |-> 1]]

\* `best_similarity > 0 and best_similarity >= min_assignment_similarity`
joins_best_cluster(best_similarity, min_assignment_similarity) ==
    /\ FracGt(best_similarity, Frac(0, 1))
    /\ FracGeq(best_similarity, min_assignment_similarity)

\* one turn of the phase 2 loop: `clusters` after group_idx is placed
assign_group(gs, cls, group_idx, min_assignment_similarity) ==
    IF cls = <<>> THEN <<(<<group_idx>>)>>
    ELSE LET best == best_cluster(gs, cls, Range(gs[group_idx + 1].tables),
                                  0, NoBest)
         IN  IF joins_best_cluster(best.best_similarity,
                                   min_assignment_similarity)
             THEN [cls EXCEPT ![best.best_cluster_idx + 1] =
                                  Append(@, group_idx)]
             ELSE Append(cls, <<group_idx>>)

Min(S) == CHOOSE x \in S : \A y \in S : x <= y

RECURSIVE sorted_ints(_)
sorted_ints(S) ==
    IF S = {} THEN <<>> ELSE <<Min(S)>> \o sorted_ints(S \ {Min(S)})

\* sorted(clusters, key=lambda members: (-len(members), min(members))),
\* each cluster's members sorted
RECURSIVE sorted_clusters(_)
sorted_clusters(S) ==
    IF S = {} THEN <<>>
    ELSE LET m == CHOOSE x \in S : \A y \in S \ {x} :
                      \/ Cardinality(x) > Cardinality(y)
                      \/ Cardinality(x) = Cardinality(y) /\ Min(x) < Min(y)
         IN  <<sorted_ints(m)>> \o sorted_clusters(S \ {m})

ClusterIds == <<"C0", "C1", "C2", "C3">>

summarize_clusters(gs, cls) ==
    [cluster_index \in 1..Len(cls) |->
        LET members == cls[cluster_index]
        IN  [cluster_id |-> ClusterIds[cluster_index],
             group_ids |-> [k \in 1..Len(members) |->
                               gs[members[k] + 1].group_id],
             procedure_count |->
                 Cardinality(UNION {Range(gs[members[k] + 1].procedures) :
                                        k \in 1..Len(members)}),
             procedures |->
                 sorted(UNION {Range(gs[members[k] + 1].procedures) :
                                   k \in 1..Len(members)}),
             tables |->
                 sorted(UNION {Range(gs[members[k] + 1].tables) :
                                   k \in 1..Len(members)})]]

\* the loop of summarize_clusters that stamps each group with its cluster
stamped_groups(gs, cls) ==
    [i \in 1..Len(gs) |->
        IF \E c \in 1..Len(cls) : InSeq(cls[c], i - 1)
        THEN [gs[i] EXCEPT !.cluster_id =
                 ClusterIds[CHOOSE c \in 1..Len(cls) : InSeq(cls[c], i - 1)]]
        ELSE gs[i]]

identify_global_tables(summaries, min_clusters) ==
    IF Len(summaries) < min_clusters THEN {}
    ELSE LET table_to_clusters(t) ==
                 {summaries[i].cluster_id :
                     i \in {j \in 1..Len(summaries) :
                               InSeq(summaries[j].tables, t)}}
         IN  {t \in UNION {Range(summaries[i].tables) :
                               i \in 1..Len(summaries)} :
                 Cardinality(table_to_clusters(t)) >= min_clusters}

\* output_data of rebuild_clusters_from_catalog; of the parameters, the ones
\* ClusterState reads
build_output_data(gs, summaries, es, got, params) ==
    LET globals == identify_global_tables(summaries,
                                          params.min_global_clusters)
    IN  [parameters |->
             [similarity_threshold |-> <<params.similarity_threshold>>,
              min_group_size |-> <<params.min_group_size>>,
              min_global_clusters |-> <<params.min_global_clusters>>],
         global_tables |-> sorted(globals),
         procedure_groups |->
             [i \in 1..Len(gs) |->
                 [group_id |-> gs[i].group_id,
                  cluster_id |-> gs[i].cluster_id,
                  is_singleton |-> gs[i].is_singleton,
                  procedures |-> gs[i].procedures,
                  tables |-> gs[i].tables]],
         clusters |-> summaries,
         similarity_edges |->
             [k \in 1..Len(es) |->
                 [source |-> gs[es[k].left + 1].group_id,
                  target |-> gs[es[k].right + 1].group_id,
                  similarity |-> es[k].similarity]],
         table_nodes |-> build_table_nodes(got.table_usage, globals,
                             got.missing_tables, got.orphaned_tables),
         procedure_table_edges |->
             build_procedure_table_edges(gs, globals, 1)]

\* the payload as from_json reads it: a key the file does not hold is read
\* with its default
with_defaults(data) ==
    [parameters |-> data.parameters,
     global_tables |-> data.global_tables,
     clusters |-> [i \in 1..Len(data.clusters) |->
                      [cluster_id |-> data.clusters[i].cluster_id,
                       group_ids |-> data.clusters[i].group_ids,
                       display_name |-> None,
                       procedures |-> data.clusters[i].procedures,
                       tables |-> data.clusters[i].tables,
                       procedure_count |-> data.clusters[i].procedure_count]],
     procedure_groups |->
         [i \in 1..Len(data.procedure_groups) |->
             ProcedureGroup(data.procedure_groups[i].group_id,
                            data.procedure_groups[i].cluster_id,
                            data.procedure_groups[i].procedures,
                            data.procedure_groups[i].tables,
                            data.procedure_groups[i].is_singleton, None)],
     similarity_edges |-> data.similarity_edges,
     table_nodes |-> data.table_nodes,
     trash |-> <<>>]

\* the defaults of rebuild_clusters_from_catalog
DefaultParameters ==
    [similarity_threshold |-> Frac(1, 2), min_group_size |-> 1,
     min_global_clusters |-> 2, min_assignment_similarity |-> Frac(0, 1),
     exclude_system_tables |-> TRUE]

NothingGathered ==
    [groups |-> <<>>, table_usage |-> <<>>, missing_tables |-> {},
     orphaned_tables |-> {}]

\* the run is over and its locals are gone
RunOver ==
    /\ catalog = [Procedures |-> <<>>, Tables |-> {}]
    /\ run_parameters = DefaultParameters
    /\ stage = "loaded"
    /\ gathered = NothingGathered
    /\ edge_list = <<>>
    /\ connected_groups = <<>>
    /\ partition = <<>>
    /\ output_data = None

----------------------------------------------------------------------------
(* ClusterService and its callers: the HTTP handlers and the cluster agent *)

Threads == {"http", "reader", "agent"}

\* nobody calls the service
NoCaller ==
    /\ lock = None
    /\ pc = [t \in Threads |-> "idle"]
    /\ call = [t \in Threads |-> <<>>]
    /\ calls = [t \in Threads |-> 0]
    /\ disk = None

\* ClusterState.move_group up to `group.cluster_id = target_cluster_id`:
\* the two listings are changed
move_group_listings(s, group_id, target_cluster_id) ==
    LET group == GetGroup(s.groups, group_id)
        cs1 == IF group.cluster_id \in ClusterKeys(s.clusters)
               THEN PutCluster(s.clusters,
                        [GetCluster(s.clusters, group.cluster_id)
                            EXCEPT !.group_ids = Without(@, group_id)])
               ELSE s.clusters
        target_cluster == GetCluster(cs1, target_cluster_id)
    IN  [s EXCEPT !.clusters =
            IF ~InSeq(target_cluster.group_ids, group_id)
            THEN PutCluster(cs1, [target_cluster EXCEPT
                                     !.group_ids = Append(@, group_id)])
            ELSE cs1]

\* the rest of ClusterState.move_group
move_group_commit(s, group_id, target_cluster_id) ==
    rebuild_indexes([s EXCEPT !.groups = PutGroup(@,
        [GetGroup(s.groups, group_id) EXCEPT
            !.cluster_id = target_cluster_id])])

\* ops.rename_cluster: the name is assigned as given, without a rebuild
ops_rename_cluster(s, cluster_identifier, new_name) ==
    LET found == find_cluster_id(s.clusters, cluster_identifier)
    IN  IF found.status # "ok" THEN Fail(s, found.status)
        ELSE Done([s EXCEPT !.clusters = PutCluster(@,
                      [GetCluster(s.clusters, found.value) EXCEPT
                          !.display_name = new_name])],
                  [ok |-> TRUE])

----------------------------------------------------------------------------
(* The state machine: one ClusterState, driven by calls of its methods *)

\* the ClusterState object as a record
State ==
    [clusters |-> clusters, groups |-> groups,
     cluster_order |-> cluster_order, group_order |-> group_order,
     global_tables |-> global_tables, missing_tables |-> missing_tables,
     orphaned_tables |-> orphaned_tables,
     similarity_edges |-> similarity_edges, parameters |-> parameters,
     table_usage |-> table_usage, table_nodes |-> table_nodes,
     procedure_table_edges |-> procedure_table_edges,
     last_updated |-> last_updated, trash |-> trash]

\* the object becomes s
Becomes(s) ==
    /\ clusters' = s.clusters
    /\ groups' = s.groups
    /\ cluster_order' = s.cluster_order
    /\ group_order' = s.group_order
    /\ global_tables' = s.global_tables
    /\ missing_tables' = s.missing_tables
    /\ orphaned_tables' = s.orphaned_tables
    /\ similarity_edges' = s.similarity_edges
    /\ parameters' = s.parameters
    /\ table_usage' = s.table_usage
    /\ table_nodes' = s.table_nodes
    /\ procedure_table_edges' = s.procedure_table_edges
    /\ last_updated' = s.last_updated
    /\ trash' = s.trash

\* a call of method op with arguments args had outcome r
Called(op, args, r) ==
    /\ Becomes(r.s)
    /\ result' = [op |-> op, args |-> args, status |-> r.status,
                  ret |-> r.ret]
    /\ UNCHANGED <<ingest_vars, service_vars>>

\* the arguments the calls are made with
ClusterIdentifiers == {"C0", "C1", "C2", "trash", "TRASH", "ALPHA", "nope"}

MoveTargets == {"C0", "C1", "C2", "trash", "ALPHA", "nope"}

RestoreTargets == {"C0", "C1", "C2", "trash", "ALPHA"}

GroupIdentifiers == GroupKeys(groups) \cup {"ALPHA", "nope"}

RenamedGroups == {"PG0", "P3", "ALPHA", "nope"}

ProcedureNames == {"P1", "P2", "P3", "P9"}

TableNames == {"t1", "t2", "t3", "t9"}

NewNames == {" Alpha "}

NewClusterIds == {"C2", "trash"}

NewClusterNames == {None, "Alpha"}

TrashIndexes == -1..Len(trash)

\* the parameters of the loaded snapshot
ParameterChoices ==
    {NoParameters}
    \cup {[NoParameters EXCEPT !.min_global_clusters = <<m>>] :
              m \in {0, 1, 3}}

\* the snapshot saved after PG0 of PayloadA was moved to the trash cluster
PayloadC ==
    snapshot(move_group(from_json(PayloadA(NoParameters)),
                        "PG0", "trash").s)

InitialPayloads ==
    {PayloadA(params) : params \in ParameterChoices}
    \cup {PayloadB(NoParameters), PayloadC}

Init ==
    \E payload \in InitialPayloads :
        LET s == from_json(payload)
        IN  /\ clusters = s.clusters
            /\ groups = s.groups
            /\ cluster_order = s.cluster_order
            /\ group_order = s.group_order
            /\ global_tables = s.global_tables
            /\ missing_tables = s.missing_tables
            /\ orphaned_tables = s.orphaned_tables
            /\ similarity_edges = s.similarity_edges
            /\ parameters = s.parameters
            /\ table_usage = s.table_usage
            /\ table_nodes = s.table_nodes
            /\ procedure_table_edges = s.procedure_table_edges
            /\ last_updated = s.last_updated
            /\ trash = s.trash
            /\ result = [op |-> "from_json", args |-> <<>>, status |-> "ok",
                         ret |-> None]
            /\ RunOver
            /\ NoCaller

\* Calls are followed until the clock reaches MaxClock, and up to the first
\* rejected call: what follows a rejected call starts from the state the
\* call was made in, which is explored already.
Running == last_updated < MaxClock /\ result.status = "ok"

RenameCluster ==
    /\ Running
    /\ \E c \in ClusterIdentifiers, n \in NewNames :
           Called("rename_cluster", <<c, n>>, rename_cluster(State, c, n))

RenameGroup ==
    /\ Running
    /\ \E g \in RenamedGroups, n \in NewNames :
           Called("rename_group", <<g, n>>, rename_group(State, g, n))

MoveGroup ==
    /\ Running
    /\ \E g \in GroupIdentifiers, c \in MoveTargets :
           Called("move_group", <<g, c>>, move_group(State, g, c))

MoveProcedure ==
    /\ Running
    /\ \E p \in ProcedureNames, c \in MoveTargets :
           Called("move_procedure", <<p, c>>, move_procedure(State, p, c))

DeleteProcedure ==
    /\ Running
    /\ \E p \in ProcedureNames :
           Called("delete_procedure", <<p>>, delete_procedure(State, p))

DeleteTable ==
    /\ Running
    /\ \E t \in TableNames :
           Called("delete_table", <<t>>, delete_table(State, t))

RestoreProcedure ==
    /\ Running
    /\ \E p \in ProcedureNames, c \in RestoreTargets, f \in BOOLEAN :
           LET g_found == find_group_by_procedure(groups, p)
               table_set == IF g_found.status = "ok"
                            THEN Range(g_found.value.tables) ELSE {}
           IN  \E table_list \in ListsOf(table_set) :
                   Called("restore_procedure", <<p, c, f>>,
                          restore_procedure(State, p, c, f, table_list))

RestoreTable ==
    /\ Running
    /\ \E i \in TrashIndexes :
           Called("restore_table", <<i>>, restore_table(State, i))

EmptyTrash ==
    /\ Running
    /\ Called("empty_trash", <<>>, empty_trash(State))

AddCluster ==
    /\ Running
    /\ \E c \in NewClusterIds, n \in NewClusterNames :
           Called("add_cluster", <<c, n>>, add_cluster(State, c, n))

DeleteClusterIfEmpty ==
    /\ Running
    /\ \E c \in ClusterIdentifiers :
           Called("delete_cluster_if_empty", <<c>>,
                  delete_cluster_if_empty(State, c))

Next ==
    \/ RenameCluster
    \/ RenameGroup
    \/ MoveGroup
    \/ MoveProcedure
    \/ DeleteProcedure
    \/ DeleteTable
    \/ RestoreProcedure
    \/ RestoreTable
    \/ EmptyTrash
    \/ AddCluster
    \/ DeleteClusterIfEmpty

Spec == Init /\ [][Next]_vars

----------------------------------------------------------------------------
(* The initial clustering run as a state machine:                          *)
(* rebuild_clusters_from_catalog, statement by statement, and the service  *)
(* loading the file it wrote.                                              *)

\* the catalogs: every procedure reads and writes one of these
AccessChoices ==
    {[Reads |-> <<"o", "sys.objects">>, Writes |-> <<>>],
     [Reads |-> <<"items">>, Writes |-> <<"logs">>],
     [Reads |-> <<"Items", "logs", "o">>, Writes |-> <<"items">>],
     [Reads |-> <<"items", "logs", "Orders">>, Writes |-> <<>>],
     [Reads |-> <<"orders", "users">>, Writes |-> <<"sysobjects">>],
     [Reads |-> <<"logs", "users">>, Writes |-> <<>>],
     [Reads |-> <<"items">>, Writes |-> <<>>],
     [Reads |-> <<"users">>, Writes |-> <<>>]}

\* what the last procedure of the catalog reads
LastChoices ==
    {[Reads |-> <<"o">>, Writes |-> <<>>],
     [Reads |-> <<"logs">>, Writes |-> <<>>]}

CatalogTables == {"Items", "logs", "orders", "Audit"}

Catalogs ==
    {[Procedures |->
          <<[name |-> "P1", Reads |-> a.Reads, Writes |-> a.Writes],
            [name |-> "P2", Reads |-> b.Reads, Writes |-> b.Writes],
            [name |-> "P3", Reads |-> c.Reads, Writes |-> c.Writes],
            [name |-> "P4", Reads |-> d.Reads, Writes |-> d.Writes]>>,
      Tables |-> CatalogTables] :
        a \in AccessChoices, b \in AccessChoices, c \in AccessChoices,
        d \in LastChoices}

RunParameters ==
    {[DefaultParameters EXCEPT !.similarity_threshold = th,
                               !.min_group_size = size,
                               !.min_assignment_similarity = ma] :
        th \in {Frac(0, 1), Frac(1, 4), Frac(1, 2)},
        size \in {1, 2},
        ma \in {Frac(0, 1), Frac(1, 2)}}

\* no ClusterState is built before the service loads clusters.json
NotLoaded ==
    [clusters |-> <<>>, groups |-> <<>>, cluster_order |-> <<>>,
     group_order |-> <<>>, global_tables |-> {}, missing_tables |-> {},
     orphaned_tables |-> {}, similarity_edges |-> <<>>,
     parameters |-> NoParameters, table_usage |-> <<>>, table_nodes |-> <<>>,
     procedure_table_edges |-> <<>>, last_updated |-> 0, trash |-> <<>>]

state_vars == <<clusters, groups, cluster_order, group_order, global_tables,
                missing_tables, orphaned_tables, similarity_edges, parameters,
                table_usage, table_nodes, procedure_table_edges, last_updated,
                trash, result>>

InitIngest ==
    /\ catalog \in Catalogs
    /\ run_parameters \in RunParameters
    /\ stage = "start"
    /\ gathered = NothingGathered
    /\ edge_list = <<>>
    /\ connected_groups = <<>>
    /\ partition = <<>>
    /\ output_data = None
    /\ clusters = NotLoaded.clusters
    /\ groups = NotLoaded.groups
    /\ cluster_order = NotLoaded.cluster_order
    /\ group_order = NotLoaded.group_order
    /\ global_tables = NotLoaded.global_tables
    /\ missing_tables = NotLoaded.missing_tables
    /\ orphaned_tables = NotLoaded.orphaned_tables
    /\ similarity_edges = NotLoaded.similarity_edges
    /\ parameters = NotLoaded.parameters
    /\ table_usage = NotLoaded.table_usage
    /\ table_nodes = NotLoaded.table_nodes
    /\ procedure_table_edges = NotLoaded.procedure_table_edges
    /\ last_updated = NotLoaded.last_updated
    /\ trash = NotLoaded.trash
    /\ result = [op |-> None, args |-> <<>>, status |-> "ok", ret |-> None]
    /\ NoCaller

\* Step 1; `if not groups: raise ValueError`
GatherGroups ==
    /\ stage = "start"
    /\ gathered' = gather_procedure_groups(
                       catalog, run_parameters.exclude_system_tables)
    /\ stage' = IF gathered'.groups = <<>> THEN "ValueError" ELSE "gathered"
    /\ UNCHANGED <<catalog, run_parameters, edge_list, connected_groups,
                   partition, output_data>>
    /\ UNCHANGED <<state_vars, service_vars>>

\* Step 2
BuildEdges ==
    /\ stage = "gathered"
    /\ \E table_order \in index_orders(gathered.groups, 1, {}) :
           edge_list' = build_similarity_edges(
                            gathered.groups, run_parameters.min_group_size,
                            run_parameters.similarity_threshold, table_order)
    /\ stage' = "edges"
    /\ UNCHANGED <<catalog, run_parameters, gathered, connected_groups,
                   partition, output_data>>
    /\ UNCHANGED <<state_vars, service_vars>>

\* Step 3, build_clusters_two_phase up to its phase 2 loop
Phase1 ==
    /\ stage = "edges"
    /\ partition' =
           [k \in 1..Len(isolated_groups(gathered.groups, edge_list)) |->
               <<isolated_groups(gathered.groups, edge_list)[k]>>]
    /\ connected_groups' = sorted_connected_groups(gathered.groups, edge_list)
    /\ stage' = "phase2"
    /\ UNCHANGED <<catalog, run_parameters, gathered, edge_list, output_data>>
    /\ UNCHANGED <<state_vars, service_vars>>

\* one turn of the phase 2 loop
Phase2 ==
    /\ stage = "phase2"
    /\ connected_groups # <<>>
    /\ partition' = assign_group(gathered.groups, partition,
                                 Head(connected_groups),
                                 run_parameters.min_assignment_similarity)
    /\ connected_groups' = Tail(connected_groups)
    /\ UNCHANGED <<catalog, run_parameters, stage, gathered, edge_list,
                   output_data>>
    /\ UNCHANGED <<state_vars, service_vars>>

\* the end of build_clusters_two_phase: the sorted partition is returned
SortClusters ==
    /\ stage = "phase2"
    /\ connected_groups = <<>>
    /\ partition' = sorted_clusters({Range(partition[i]) :
                                        i \in 1..Len(partition)})
    /\ stage' = "clustered"
    /\ UNCHANGED <<catalog, run_parameters, gathered, edge_list,
                   connected_groups, output_data>>
    /\ UNCHANGED <<state_vars, service_vars>>

\* summarize_clusters, Step 4 and the output file
WriteOutput ==
    /\ stage = "clustered"
    /\ gathered' = [gathered EXCEPT
                       !.groups = stamped_groups(gathered.groups, partition)]
    /\ output_data' = build_output_data(
                          gathered'.groups,
                          summarize_clusters(gathered.groups, partition),
                          edge_list, gathered, run_parameters)
    /\ stage' = "written"
    /\ UNCHANGED <<catalog, run_parameters, edge_list, connected_groups,
                   partition>>
    /\ UNCHANGED <<state_vars, service_vars>>

\* the service starts: ClusterState.from_json of the file
LoadSnapshot ==
    /\ stage = "written"
    /\ Becomes(from_json(with_defaults(output_data)))
    /\ result' = [op |-> "from_json", args |-> <<>>, status |-> "ok",
                  ret |-> None]
    /\ stage' = "loaded"
    /\ UNCHANGED <<catalog, run_parameters, gathered, edge_list,
                   connected_groups, partition, output_data>>
    /\ UNCHANGED service_vars

NextIngest ==
    \/ GatherGroups
    \/ BuildEdges
    \/ Phase1
    \/ Phase2
    \/ SortClusters
    \/ WriteOutput
    \/ LoadSnapshot

SpecIngest == InitIngest /\ [][NextIngest]_vars

----------------------------------------------------------------------------
(* The service under concurrent callers.  A handler of the HTTP API runs   *)
(* ClusterService.execute or ClusterService.snapshot in its own thread;    *)
(* the cluster agent runs agent_answer in another.                         *)

InitService ==
    /\ \E payload \in InitialPayloads :
           LET s == from_json(payload)
           IN  /\ clusters = s.clusters
               /\ groups = s.groups
               /\ cluster_order = s.cluster_order
               /\ group_order = s.group_order
               /\ global_tables = s.global_tables
               /\ missing_tables = s.missing_tables
               /\ orphaned_tables = s.orphaned_tables
               /\ similarity_edges = s.similarity_edges
               /\ parameters = s.parameters
               /\ table_usage = s.table_usage
               /\ table_nodes = s.table_nodes
               /\ procedure_table_edges = s.procedure_table_edges
               /\ last_updated = s.last_updated
               /\ trash = s.trash
               /\ disk = payload
    /\ result = [op |-> "from_json", args |-> <<>>, status |-> "ok",
                 ret |-> None]
    /\ RunOver
    /\ lock = None
    /\ pc = [t \in Threads |-> "idle"]
    /\ call = [t \in Threads |-> <<>>]
    /\ calls = [t \in Threads |-> 0]

\* thread t goes on to statement label
Goto(t, label) == pc' = [pc EXCEPT ![t] = label]

\* the call of thread t returns or raises
Return(t) ==
    /\ pc' = [pc EXCEPT ![t] = "idle"]
    /\ call' = [call EXCEPT ![t] = <<>>]
    /\ calls' = [calls EXCEPT ![t] = @ + 1]

\* execute({"type": "move_group", ...}): `with self._lock:` is entered
ExecuteBegin ==
    /\ pc["http"] = "idle"
    /\ calls["http"] < MaxCalls
    /\ lock = None
    /\ lock' = "http"
    /\ \E g \in RenamedGroups, c \in MoveTargets :
           call' = [call EXCEPT !["http"] = <<g, c>>]
    /\ Goto("http", "move_group")
    /\ UNCHANGED <<state_vars, ingest_vars, calls, disk>>

\* find_group_id or find_cluster_id raises: the exception leaves the
\* `with` block and nothing is saved
ExecuteRejected ==
    /\ pc["http"] = "move_group"
    /\ \/ find_group_id(groups, call["http"][1]).status # "ok"
       \/ find_cluster_id(clusters, call["http"][2]).status # "ok"
    /\ lock' = None
    /\ Return("http")
    /\ UNCHANGED <<state_vars, ingest_vars, disk>>

\* move_group returns at once: the group is in the target cluster
ExecuteMoveNoOp ==
    /\ pc["http"] = "move_group"
    /\ find_group_id(groups, call["http"][1]).status = "ok"
    /\ find_cluster_id(clusters, call["http"][2]).status = "ok"
    /\ GetGroup(groups, find_group_id(groups, call["http"][1]).value).cluster_id
           = find_cluster_id(clusters, call["http"][2]).value
    /\ Goto("http", "save")
    /\ UNCHANGED <<state_vars, ingest_vars, lock, call, calls, disk>>

\* move_group changes the listings of the two clusters
ExecuteMoveListings ==
    /\ pc["http"] = "move_group"
    /\ find_group_id(groups, call["http"][1]).status = "ok"
    /\ find_cluster_id(clusters, call["http"][2]).status = "ok"
    /\ LET group_id == find_group_id(groups, call["http"][1]).value
           target_cluster_id == find_cluster_id(clusters, call["http"][2]).value
       IN  /\ GetGroup(groups, group_id).cluster_id # target_cluster_id
           /\ Becomes(move_group_listings(State, group_id, target_cluster_id))
           /\ call' = [call EXCEPT !["http"] = <<group_id, target_cluster_id>>]
    /\ Goto("http", "commit")
    /\ UNCHANGED <<result, ingest_vars, lock, calls, disk>>

\* move_group assigns group.cluster_id and rebuilds
ExecuteMoveCommit ==
    /\ pc["http"] = "commit"
    /\ Becomes(move_group_commit(State, call["http"][1], call["http"][2]))
    /\ Goto("http", "save")
    /\ UNCHANGED <<result, ingest_vars, lock, call, calls, disk>>

\* self._save_snapshot(), and execute returns
ExecuteSave ==
    /\ pc["http"] = "save"
    /\ disk' = snapshot(State)
    /\ lock' = None
    /\ Return("http")
    /\ UNCHANGED <<state_vars, ingest_vars>>

\* ClusterService.snapshot: `with self._lock:` is entered
SnapshotBegin ==
    /\ pc["reader"] = "idle"
    /\ calls["reader"] < MaxCalls
    /\ lock = None
    /\ lock' = "reader"
    /\ Goto("reader", "snapshot")
    /\ UNCHANGED <<state_vars, ingest_vars, call, calls, disk>>

\* `return self._state.snapshot()`
SnapshotRead ==
    /\ pc["reader"] = "snapshot"
    /\ result' = [op |-> "snapshot", args |-> <<>>, status |-> "ok",
                  ret |-> snapshot(State)]
    /\ lock' = None
    /\ Return("reader")
    /\ UNCHANGED <<clusters, groups, cluster_order, group_order,
                   global_tables, missing_tables, orphaned_tables,
                   similarity_edges, parameters, table_usage, table_nodes,
                   procedure_table_edges, last_updated, trash>>
    /\ UNCHANGED <<ingest_vars, disk>>

\* agent_answer, intent rename_cluster: `state = cluster_service.state`
\* and O.rename_cluster(state, ...)
AgentRename ==
    /\ pc["agent"] = "idle"
    /\ calls["agent"] < MaxCalls
    /\ \E c \in ClusterIdentifiers, n \in NewNames :
           LET r == ops_rename_cluster(State, c, n)
           IN  /\ r.status = "ok"
               /\ Becomes(r.s)
               /\ call' = [call EXCEPT !["agent"] = <<c, n>>]
    /\ Goto("agent", "save")
    /\ UNCHANGED <<result, ingest_vars, lock, calls, disk>>

\* the lookup raises and `except Exception` turns it into an answer
AgentRejected ==
    /\ pc["agent"] = "idle"
    /\ calls["agent"] < MaxCalls
    /\ \E c \in ClusterIdentifiers, n \in NewNames :
           ops_rename_cluster(State, c, n).status # "ok"
    /\ pc' = pc
    /\ call' = call
    /\ calls' = [calls EXCEPT !["agent"] = @ + 1]
    /\ UNCHANGED <<state_vars, ingest_vars, lock, disk>>

\* cluster_service._save_snapshot() in agent_answer
AgentSave ==
    /\ pc["agent"] = "save"
    /\ disk' = snapshot(State)
    /\ Return("agent")
    /\ UNCHANGED <<state_vars, ingest_vars, lock>>

NextService ==
    \/ ExecuteBegin
    \/ ExecuteRejected
    \/ ExecuteMoveNoOp
    \/ ExecuteMoveListings
    \/ ExecuteMoveCommit
    \/ ExecuteSave
    \/ SnapshotBegin
    \/ SnapshotRead
    \/ AgentRename
    \/ AgentRejected
    \/ AgentSave

SpecService == InitService /\ [][NextService]_vars

----------------------------------------------------------------------------
(* Properties *)

\* what a caller can observe of the aggregate, the time stamp aside
Observable == <<clusters, groups, cluster_order, group_order, global_tables,
                missing_tables, orphaned_tables, trash>>

Mutations ==
    {"rename_cluster", "rename_group", "move_group", "move_procedure",
     "delete_procedure", "delete_table", "restore_procedure",
     "restore_table", "empty_trash", "add_cluster",
     "delete_cluster_if_empty"}

\* C1: a mutation that is rejected with an error leaves the clusters, the
\* groups, the cluster and group order, the global, missing and orphaned
\* table sets and the trash log exactly as they were before the call.
C1_RejectedCallChangesNothing ==
    [][(result'.op \in Mutations /\ result'.status # "ok")
           => UNCHANGED Observable]_vars

\* a restore or a delete was rejected after the trash had been used
C1_Witness ==
    /\ result.op \in {"restore_procedure", "delete_procedure"}
    /\ result.status = "ValueError"
    /\ trash # <<>>

\* C2: delete_procedure(P) followed by restore_procedure(P, C,
\* force_new_group = true), C being the cluster P was deleted from and S the
\* table set of its group, leaves P as the only procedure of a singleton
\* group of C whose table set is S, and in no other group.
C2_TrashRoundTrip ==
    [][(/\ result.op = "delete_procedure" /\ result.status = "ok"
        /\ result'.op = "restore_procedure" /\ result'.status = "ok"
        /\ result'.args = <<result.args[1], result.ret.original_cluster, TRUE>>)
       => LET P == result.args[1]
              C == result.ret.original_cluster
              S == Range(trash[Len(trash)].data.tables)
          IN  \E i \in 1..Len(groups') :
                  /\ groups'[i].procedures = <<P>>
                  /\ groups'[i].is_singleton
                  /\ groups'[i].cluster_id = C
                  /\ C # "trash"
                  /\ Range(groups'[i].tables) = S
                  /\ \A j \in 1..Len(groups') :
                         j # i => ~InSeq(groups'[j].procedures, P)]_vars

\* C3: every group id is listed exactly once, in the group_ids of exactly
\* one cluster; that cluster exists and is the group's cluster_id.
C3_Partition ==
    \A i \in 1..Len(groups) :
        /\ groups[i].cluster_id \in ClusterKeys(clusters)
        /\ \A k \in 1..Len(clusters) :
               CountIn(clusters[k].group_ids, groups[i].group_id)
                   = IF clusters[k].cluster_id = groups[i].cluster_id
                     THEN 1 ELSE 0

\* a cluster was deleted while groups exist in other clusters
C3_Witness ==
    /\ result.op = "delete_cluster_if_empty"
    /\ result.status = "ok"
    /\ Len(groups) >= 2

\* C4: no table is in both missing_tables and orphaned_tables.
C4_MissingOrphanedDisjoint == missing_tables \cap orphaned_tables = {}

\* a delete_procedure orphaned a missing table and purged it
C4_Witness ==
    /\ result.op = "delete_procedure"
    /\ result.status = "ok"
    /\ result.ret.tables_auto_removed # {}

\* C5: for every group, active or in trash, is_singleton is true if and
\* only if the group has exactly one procedure.
C5_SingletonIffOneProcedure ==
    \A i \in 1..Len(groups) :
        groups[i].is_singleton <=> (Len(groups[i].procedures) = 1)

\* C6: exactly one cluster with id "trash" exists.
C6_OneTrashCluster ==
    /\ Cardinality({k \in 1..Len(clusters) :
                       clusters[k].cluster_id = "trash"}) = 1
    /\ CountIn(cluster_order, "trash") = 1

\* deleting the trash cluster by its display name, or adding a second
\* one, was rejected
C6_Witness ==
    /\ result.status = "ValueError"
    /\ \/ result.op = "delete_cluster_if_empty" /\ result.args = <<"TRASH">>
       \/ result.op = "add_cluster" /\ result.args[1] = "trash"

\* the state in the middle of a move: one group claims another cluster and
\* the listings have not been brought in line yet
MidMoveStates ==
    {[State EXCEPT !.groups = PutGroup(@,
         [groups[i] EXCEPT !.cluster_id = clusters[k].cluster_id])] :
         i \in 1..Len(groups), k \in 1..Len(clusters)}

\* the data rebuild_indexes derives
Derived(s) ==
    <<[k \in 1..Len(s.clusters) |->
          <<s.clusters[k].cluster_id, s.clusters[k].group_ids,
            s.clusters[k].procedures, s.clusters[k].tables,
            s.clusters[k].procedure_count>>],
      s.table_usage, s.global_tables, s.table_nodes,
      s.procedure_table_edges, s.similarity_edges>>

\* C7: a second rebuild_indexes right after a first leaves every cluster's
\* group_ids, procedures, tables and procedure_count, and table_usage,
\* global_tables, table_nodes, procedure_table_edges and similarity_edges
\* as the first left them.
C7_RebuildIdempotent ==
    \A s \in {State} \cup MidMoveStates :
        LET once == rebuild_indexes(s)
        IN  Derived(rebuild_indexes(once)) = Derived(once)

\* a state with a global table and a similarity edge, where a move changes
\* what is global
C7_Witness ==
    /\ global_tables # {}
    /\ similarity_edges # <<>>
    /\ \E s \in MidMoveStates :
           rebuild_indexes(s).global_tables # global_tables

\* the configured min_global_clusters, 2 when the parameter is absent
ConfiguredMinGlobalClusters ==
    IF parameters.min_global_clusters = <<>> THEN 2
    ELSE parameters.min_global_clusters[1]

\* the number of distinct cluster ids among the groups that list a table
ClustersListing(t) ==
    Cardinality({groups[i].cluster_id :
                    i \in {j \in 1..Len(groups) : InSeq(groups[j].tables, t)}})

\* C8: after every successful mutation, a table some group lists is in
\* global_tables if and only if the number of distinct cluster ids among
\* the groups that list it is at least the configured min_global_clusters.
C8_GlobalIffThreshold ==
    (result.op \in Mutations /\ result.status = "ok")
        => \A t \in UNION {Range(groups[i].tables) : i \in 1..Len(groups)} :
               t \in global_tables
                   <=> ClustersListing(t) >= ConfiguredMinGlobalClusters

\* C9: for the groups and cluster assignments at hand and configured values
\* m < m2 of min_global_clusters, the global tables the rebuild computes
\* with m2 are among those it computes with m.
C9_GlobalTablesAntitone ==
    \A m \in 0..3, m2 \in 0..3 :
        m < m2 =>
            compute_global_tables(groups,
                [parameters EXCEPT !.min_global_clusters = <<m2>>])
            \subseteq
            compute_global_tables(groups,
                [parameters EXCEPT !.min_global_clusters = <<m>>])

\* C10: every successful mutation, that is every accepted call that changes
\* the aggregate, ends with the rebuild pass and so stamps last_updated.
C10_MutationStampsLastUpdated ==
    [][(/\ result'.op \in Mutations
        /\ result'.status = "ok"
        /\ Observable' # Observable)
       => last_updated' # last_updated]_vars

----------------------------------------------------------------------------
(* Trash and cluster administration contracts *)

\* the positions of the groups of gs that hold procedure P
Holders(gs, P) == {i \in 1..Len(gs) : InSeq(gs[i].procedures, P)}

\* some group outside the trash lists table t
ActiveListing(gs, t) ==
    \E i \in 1..Len(gs) : gs[i].cluster_id # "trash" /\ InSeq(gs[i].tables, t)

\* the ids of the groups of cluster c whose table set is exactly S
GroupsWithTables(gs, c, S) ==
    {gs[i].group_id :
        i \in {j \in 1..Len(gs) :
                  gs[j].cluster_id = c /\ Range(gs[j].tables) = S}}

\* C11: restore_procedure(P, C, force_new_group) right after
\* delete_procedure(P) took P from a group with table set S: if not forced
\* and C has a group whose table set is exactly S, P is appended to such a
\* group, which then is not a singleton, and no group is created; otherwise
\* exactly one group is created, a singleton of C holding only P.
C11_RestoreAutoGroups ==
    [][(/\ result.op = "delete_procedure" /\ result.status = "ok"
        /\ result'.op = "restore_procedure" /\ result'.status = "ok"
        /\ result'.args[1] = result.args[1])
       => LET P == result.args[1]
              C == result'.args[2]
              force == result'.args[3]
              S == Range(trash[Len(trash)].data.tables)
              matching == GroupsWithTables(groups, C, S)
              created == GroupKeys(groups') \ GroupKeys(groups)
          IN  IF ~force /\ matching # {}
              THEN /\ created = {}
                   /\ \E gid \in matching :
                          /\ gid \in GroupKeys(groups')
                          /\ GetGroup(groups', gid).procedures
                                 = Append(GetGroup(groups, gid).procedures, P)
                          /\ ~GetGroup(groups', gid).is_singleton
              ELSE \E gid \in created :
                       /\ created = {gid}
                       /\ GetGroup(groups', gid).procedures = <<P>>
                       /\ GetGroup(groups', gid).is_singleton
                       /\ GetGroup(groups', gid).cluster_id = C]_vars

\* C12: a successful delete_table(T) leaves T in missing_tables exactly when
\* a group outside the trash lists T, returns became_missing = true in
\* exactly that case, and leaves every group's table list as it was.
C12_DeleteTableMissing ==
    [][(result'.op = "delete_table" /\ result'.status = "ok")
       => LET T == result'.args[1]
              listed == ActiveListing(groups, T)
          IN  /\ (T \in missing_tables') <=> listed
              /\ result'.ret.became_missing <=> listed
              /\ Len(groups') = Len(groups)
              /\ \A i \in 1..Len(groups) :
                     /\ groups'[i].group_id = groups[i].group_id
                     /\ groups'[i].tables = groups[i].tables]_vars

\* a table an active group reads was deleted and became missing
C12_Witness ==
    /\ result.op = "delete_table"
    /\ result.status = "ok"
    /\ result.ret.became_missing
    /\ result.args[1] \in missing_tables
    /\ ActiveListing(groups, result.args[1])

\* C13: after a successful delete_table(T), T is neither in global_tables
\* nor in orphaned_tables.
C13_DeletedTableUntracked ==
    (result.op = "delete_table" /\ result.status = "ok")
        => /\ result.args[1] \notin global_tables
           /\ result.args[1] \notin orphaned_tables

\* C14: delete_table(T) is rejected whenever T is in missing_tables; when T
\* is not in missing_tables and is neither global, orphaned, nor listed by a
\* group outside the trash, it is rejected as not found; in both cases the
\* trash log is left as it was.
C14_DeleteTableRejected ==
    [][result'.op = "delete_table"
       => LET T == result'.args[1]
          IN  /\ T \in missing_tables
                     => result'.status = "ValueError" /\ trash' = trash
              /\ (/\ T \notin missing_tables
                  /\ T \notin global_tables
                  /\ T \notin orphaned_tables
                  /\ ~ActiveListing(groups, T))
                     => result'.status = "KeyError" /\ trash' = trash]_vars

\* C14 as stated: delete_table(T) is rejected whenever T is in
\* missing_tables, and is rejected as not found whenever T is neither
\* global, orphaned, nor listed by a group outside the trash, a missing T
\* included; no trash record is appended.
C14_AsStated ==
    [][result'.op = "delete_table"
       => LET T == result'.args[1]
          IN  /\ T \in missing_tables
                     => result'.status # "ok" /\ trash' = trash
              /\ (/\ T \notin global_tables
                  /\ T \notin orphaned_tables
                  /\ ~ActiveListing(groups, T))
                     => result'.status = "KeyError" /\ trash' = trash]_vars

\* deleting a table a second time was rejected: it was missing already
C14_Witness ==
    /\ result.op = "delete_table"
    /\ result.status = "ValueError"
    /\ result.args[1] \in missing_tables
    /\ trash # <<>>

\* C15: delete_procedure(P) on a procedure held by a group outside the trash
\* succeeds and leaves P as the only procedure of a singleton group of the
\* trash cluster with an empty table list, in no other group, and the trash
\* log one record longer, the new record being a procedure record with the
\* group id, cluster id and table list P's group had; on a procedure held
\* by a group in the trash it is rejected.
C15_DeleteProcedureTrashes ==
    [][result'.op = "delete_procedure"
       => LET P == result'.args[1]
              holders == Holders(groups, P)
          IN  /\ (\E i \in holders : groups[i].cluster_id = "trash")
                     => result'.status # "ok"
              /\ (/\ holders # {}
                  /\ \A i \in holders : groups[i].cluster_id # "trash")
                     => /\ result'.status = "ok"
                        /\ \E j \in 1..Len(groups') :
                               /\ groups'[j].cluster_id = "trash"
                               /\ groups'[j].procedures = <<P>>
                               /\ groups'[j].is_singleton
                               /\ groups'[j].tables = <<>>
                               /\ InSeq(GetCluster(clusters', "trash").group_ids,
                                        groups'[j].group_id)
                               /\ Holders(groups', P) = {j}
                        /\ Len(trash') = Len(trash) + 1
                        /\ SubSeq(trash', 1, Len(trash)) = trash
                        /\ \E i \in holders :
                               LET rec == trash'[Len(trash')]
                               IN  /\ rec.item_type = "procedure"
                                   /\ rec.item_id = P
                                   /\ rec.data.original_group_id
                                          = groups[i].group_id
                                   /\ rec.data.original_cluster_id
                                          = groups[i].cluster_id
                                   /\ rec.data.tables = groups[i].tables]_vars

\* a procedure of a group with tables sits in the trash, its group's tables
\* on record
C15_Witness ==
    /\ result.op = "delete_procedure"
    /\ result.status = "ok"
    /\ trash[Len(trash)].data.tables # <<>>
    /\ \E j \in 1..Len(groups) :
           /\ groups[j].group_id = result.ret.moved_to_trash_group
           /\ groups[j].tables = <<>>

\* C16: after a successful delete_procedure(P), G being P's group: a table
\* of G that no other group outside the trash lists, P having been G's only
\* procedure, is orphaned, unless it was missing, and then it is neither
\* missing nor orphaned; every other table of G is orphaned and missing as
\* it was before; and G is gone from groups and from its cluster's listing
\* if and only if P was its only procedure.
C16_DeleteProcedureOrphans ==
    [][(result'.op = "delete_procedure" /\ result'.status = "ok")
       => LET P == result'.args[1]
              G == groups[CHOOSE i \in Holders(groups, P) : TRUE]
              last == (G.procedures = <<P>>)
              others(t) ==
                  \E i \in 1..Len(groups) :
                      /\ groups[i].group_id # G.group_id
                      /\ groups[i].cluster_id # "trash"
                      /\ InSeq(groups[i].tables, t)
              kept == \E j \in 1..Len(groups') :
                          /\ groups'[j].group_id = G.group_id
                          /\ groups'[j].cluster_id = G.cluster_id
              listed == InSeq(GetCluster(clusters', G.cluster_id).group_ids,
                              G.group_id)
          IN  /\ \A t \in Range(G.tables) :
                     IF last /\ ~others(t)
                     THEN IF t \in missing_tables
                          THEN /\ t \notin missing_tables'
                               /\ t \notin orphaned_tables'
                          ELSE t \in orphaned_tables'
                     ELSE /\ t \in orphaned_tables' <=> t \in orphaned_tables
                          /\ t \in missing_tables' <=> t \in missing_tables
              /\ IF last THEN ~kept /\ ~listed ELSE kept /\ listed]_vars

\* the last procedure of a group was deleted and left a table orphaned
C16_Witness ==
    /\ result.op = "delete_procedure"
    /\ result.status = "ok"
    /\ result.ret.empty_group_deleted
    /\ Range(result.ret.tables_now_orphaned) \cap orphaned_tables # {}

\* C17: restore_table(i), i being the index of a table record of the trash
\* log, succeeds, removes that record and no other from the log, removes
\* the record's table from missing_tables, and adds the table to
\* orphaned_tables if the record says it was orphaned, leaving its orphaned
\* status alone if not; any other index is rejected.
C17_RestoreTable ==
    [][result'.op = "restore_table"
       => LET i == result'.args[1]
          IN  IF i >= 0 /\ i < Len(trash) /\ trash[i + 1].item_type = "table"
              THEN LET rec == trash[i + 1]
                       T == rec.data.table_name
                   IN  /\ result'.status = "ok"
                       /\ trash' = SubSeq(trash, 1, i)
                                       \o SubSeq(trash, i + 2, Len(trash))
                       /\ T \notin missing_tables'
                       /\ IF rec.data.was_orphaned
                          THEN T \in orphaned_tables'
                          ELSE T \in orphaned_tables' <=> T \in orphaned_tables
              ELSE result'.status # "ok"]_vars

\* an orphaned table was deleted and restored, and is orphaned again
C17_Witness ==
    /\ result.op = "restore_table"
    /\ result.status = "ok"
    /\ result.ret.was_orphaned
    /\ result.ret.restored_table \in orphaned_tables

\* C18: no operation other than empty_trash removes a record of the trash
\* log or moves one to another position: the log before the call is a
\* prefix of the log after it.
C18_TrashAppendOnly ==
    [][result'.op # "empty_trash"
       => /\ Len(trash') >= Len(trash)
          /\ SubSeq(trash', 1, Len(trash)) = trash]_vars

\* C19: empty_trash succeeds and leaves the trash cluster in place with no
\* groups, no group with cluster_id "trash", an empty trash log, the groups
\* outside the trash as they were, and the clusters' ids, order and display
\* names as they were.
C19_EmptyTrash ==
    [][result'.op = "empty_trash"
       => /\ result'.status = "ok"
          /\ "trash" \in ClusterKeys(clusters')
          /\ GetCluster(clusters', "trash").group_ids = <<>>
          /\ \A j \in 1..Len(groups') : groups'[j].cluster_id # "trash"
          /\ trash' = <<>>
          /\ groups' = SelectSeq(groups, LAMBDA g : g.cluster_id # "trash")
          /\ cluster_order' = cluster_order
          /\ Len(clusters') = Len(clusters)
          /\ \A k \in 1..Len(clusters) :
                 /\ clusters'[k].cluster_id = clusters[k].cluster_id
                 /\ clusters'[k].display_name = clusters[k].display_name]_vars

\* the trash held a procedure and was emptied, other groups remain
C19_Witness ==
    /\ result.op = "empty_trash"
    /\ result.status = "ok"
    /\ result.ret.deleted_procedures > 0
    /\ groups # <<>>

\* C20: delete_cluster_if_empty succeeds only on a cluster no group has as
\* its cluster_id; on a cluster some group belongs to it is rejected and
\* clusters and groups stay as they were; and no group ever has a
\* cluster_id that names no cluster.
C20_NonEmptyClusterKept ==
    /\ [][result'.op = "delete_cluster_if_empty"
          => LET found == find_cluster_id(clusters, result'.args[1])
                 owned(c) == \E i \in 1..Len(groups) : groups[i].cluster_id = c
             IN  /\ result'.status = "ok"
                        => /\ found.status = "ok"
                           /\ ~owned(found.value)
                           /\ ClusterKeys(clusters) \ ClusterKeys(clusters')
                                  = {found.value}
                 /\ (found.status = "ok" /\ owned(found.value))
                        => /\ result'.status # "ok"
                           /\ UNCHANGED <<clusters, groups, cluster_order,
                                          group_order>>]_vars
    /\ [](\A i \in 1..Len(groups) :
              groups[i].cluster_id \in ClusterKeys(clusters))

\* deleting a cluster that owns a group was rejected
C20_Witness ==
    /\ result.op = "delete_cluster_if_empty"
    /\ result.status = "ValueError"
    /\ \E i \in 1..Len(groups) :
           /\ groups[i].cluster_id # "trash"
           /\ find_cluster_id(clusters, result.args[1]).status = "ok"
           /\ find_cluster_id(clusters, result.args[1]).value
                  = groups[i].cluster_id

----------------------------------------------------------------------------
(* Name resolution, move_procedure and the snapshot round trip *)

\* display_name is set and equals identifier, letter case ignored
NamedLike(display_name, identifier) ==
    /\ display_name # None
    /\ lower(display_name) = lower(identifier)

\* what the claim has a lookup of x return: ids and names list the keys and
\* display names of the entities, in step
Resolution(ids, names, x) ==
    LET named == {k \in 1..Len(ids) : NamedLike(names[k], x)}
    IN  IF InSeq(ids, x) THEN Ok(x)
        ELSE IF Cardinality(named) = 1
        THEN Ok(ids[CHOOSE k \in named : TRUE])
        ELSE IF named = {} THEN Raise("KeyError")
        ELSE Raise("ValueError")

\* C21: find_cluster_id and find_group_id return the identifier when it is
\* the id of an entity; otherwise the id of the single entity whose display
\* name equals it with letter case ignored; they fail as not found
\* (KeyError) when no display name matches and as ambiguous (ValueError)
\* when more than one does.
C21_NameResolution ==
    /\ \A x \in ClusterIdentifiers :
           find_cluster_id(clusters, x)
               = Resolution([k \in 1..Len(clusters) |-> clusters[k].cluster_id],
                            [k \in 1..Len(clusters) |-> clusters[k].display_name],
                            x)
    /\ \A x \in GroupIdentifiers \cup RenamedGroups :
           find_group_id(groups, x)
               = Resolution([i \in 1..Len(groups) |-> groups[i].group_id],
                            [i \in 1..Len(groups) |-> groups[i].display_name],
                            x)

\* two clusters carry the name Alpha: ALPHA is ambiguous, TRASH resolves
C21_Witness ==
    /\ Cardinality({k \in 1..Len(clusters) :
                       clusters[k].display_name = "Alpha"}) = 2
    /\ find_cluster_id(clusters, "ALPHA").status = "ValueError"
    /\ find_cluster_id(clusters, "TRASH") = Ok("trash")
    /\ find_cluster_id(clusters, "nope").status = "KeyError"

\* C22: every mutation that takes a cluster argument accepts the cluster's
\* display name in any letter case where it accepts the cluster's id, and
\* does with it what it does with the id.
C22_ClusterArgumentResolved ==
    \A x \in ClusterIdentifiers :
        LET found == find_cluster_id(clusters, x)
            Same(by_id, by_name) ==
                by_id.status = "ok"
                    => by_name.status = "ok" /\ by_name.s = by_id.s
        IN  found.status = "ok"
            => /\ \A n \in NewNames :
                      Same(rename_cluster(State, found.value, n),
                           rename_cluster(State, x, n))
               /\ \A g \in GroupIdentifiers :
                      Same(move_group(State, g, found.value),
                           move_group(State, g, x))
               /\ \A p \in ProcedureNames :
                      Same(move_procedure(State, p, found.value),
                           move_procedure(State, p, x))
               /\ Same(delete_cluster_if_empty(State, found.value),
                       delete_cluster_if_empty(State, x))
               /\ \A p \in ProcedureNames, f \in BOOLEAN :
                      Same(restore_procedure(State, p, found.value, f, <<>>),
                           restore_procedure(State, p, x, f, <<>>))

\* C23: move_procedure(P, X), X resolving to a cluster and P's group G
\* holding at least two procedures, succeeds, creates a group in cluster X
\* that is a singleton, holds only P and has G's table list, and removes P
\* from G; if G is left with exactly one procedure Q, G is marked singleton
\* and, if it had no display name, gets the display name Q.
C23_MoveProcedureSplits ==
    [][result'.op = "move_procedure"
       => LET P == result'.args[1]
              found == find_cluster_id(clusters, result'.args[2])
              holders == Holders(groups, P)
          IN  (/\ found.status = "ok"
               /\ holders # {}
               /\ Len(groups[CHOOSE i \in holders : TRUE].procedures) >= 2)
              => LET G == groups[CHOOSE i \in holders : TRUE]
                     G2 == GetGroup(groups', G.group_id)
                     rest == Without(G.procedures, P)
                 IN  /\ result'.status = "ok"
                     /\ \E j \in 1..Len(groups') :
                            /\ groups'[j].group_id \notin GroupKeys(groups)
                            /\ groups'[j].cluster_id = found.value
                            /\ groups'[j].procedures = <<P>>
                            /\ groups'[j].is_singleton
                            /\ groups'[j].tables = G.tables
                     /\ G.group_id \in GroupKeys(groups')
                     /\ G2.procedures = rest
                     /\ Len(rest) = 1
                            => /\ G2.is_singleton
                               /\ G2.display_name
                                      = IF G.display_name = None
                                        THEN rest[1] ELSE G.display_name]_vars

\* C23 as stated: whenever the source group is left with exactly one
\* procedure Q, it is left marked singleton with display name Q, whatever
\* display name it had.
C23_AsStated ==
    [][(result'.op = "move_procedure" /\ result'.status = "ok")
       => LET P == result'.args[1]
              holders == Holders(groups, P)
              G == groups[CHOOSE i \in holders : TRUE]
              rest == Without(G.procedures, P)
          IN  (Len(G.procedures) >= 2 /\ Len(rest) = 1)
              => /\ G.group_id \in GroupKeys(groups')
                 /\ GetGroup(groups', G.group_id).is_singleton
                 /\ GetGroup(groups', G.group_id).display_name = rest[1]]_vars

\* P1 was split from PG0 into another cluster; PG0 is left as the
\* singleton P2
C23_Witness ==
    /\ result.op = "move_procedure"
    /\ result.status = "ok"
    /\ \E i, j \in 1..Len(groups) :
           /\ groups[i].procedures = <<result.args[1]>>
           /\ groups[i].tables # <<>>
           /\ groups[j].group_id = "PG0"
           /\ groups[j].cluster_id # groups[i].cluster_id
           /\ groups[j].tables = groups[i].tables
           /\ groups[j].is_singleton
           /\ groups[j].display_name = groups[j].procedures[1]

\* the state ClusterState.from_json makes of the state's snapshot
Reloaded == from_json(snapshot(State))

\* C26: from_json(state.snapshot()) has the clusters, groups, cluster and
\* group order, global_tables, missing_tables, orphaned_tables, similarity
\* edges and trash log of the state.
C26_SnapshotRoundTrip ==
    /\ Range(Reloaded.clusters) = Range(clusters)
    /\ Range(Reloaded.groups) = Range(groups)
    /\ Reloaded.cluster_order = cluster_order
    /\ Reloaded.group_order = group_order
    /\ Reloaded.global_tables = global_tables
    /\ Reloaded.missing_tables = missing_tables
    /\ Reloaded.orphaned_tables = orphaned_tables
    /\ Reloaded.similarity_edges = similarity_edges
    /\ Reloaded.trash = trash

----------------------------------------------------------------------------
(* The initial clustering run: grouping, similarity edges and the          *)
(* two-phase partition                                                     *)

\* the table each name of the catalogs stands for; the other names are an
\* alias and two system tables
TableOf ==
    [n \in {"items", "Items", "logs", "orders", "Orders", "users"} |->
        CASE n \in {"items", "Items"} -> "items"
          [] n = "logs" -> "logs"
          [] n \in {"orders", "Orders"} -> "orders"
          [] n = "users" -> "users"]

Surviving(proc_body) ==
    {TableOf[n] : n \in (Range(proc_body.Reads) \cup Range(proc_body.Writes))
                            \cap DOMAIN TableOf}

GroupsHolding(gs, name) == {i \in 1..Len(gs) : InSeq(gs[i].procedures, name)}

GroupsShareNoTable(gs) ==
    \A i, j \in 1..Len(gs) :
        i # j => Range(gs[i].tables) \cap Range(gs[j].tables) = {}

Partitioned == stage \in {"clustered", "written", "loaded"}

\* C27: two procedures are in the same group exactly when their surviving
\* lower-cased table sets are equal, a procedure with a surviving table is
\* in exactly one group, and when no two groups share a table every group
\* is alone in its cluster, in the partition and in the state loaded from it
C27_IngestGroups ==
    LET gs == gathered.groups
        procs == {p \in Range(catalog.Procedures) : Surviving(p) # {}}
    IN  /\ stage # "start" =>
               /\ \A p \in procs : Cardinality(GroupsHolding(gs, p.name)) = 1
               /\ \A p, q \in procs :
                      GroupsHolding(gs, p.name) = GroupsHolding(gs, q.name)
                          <=> Surviving(p) = Surviving(q)
        /\ Partitioned /\ GroupsShareNoTable(gs) =>
               /\ Len(partition) = Len(gs)
               /\ \A c \in 1..Len(partition) : Len(partition[c]) = 1
               /\ \A i \in 1..Len(gs) :
                      \E c \in 1..Len(partition) : partition[c] = <<i - 1>>
        /\ stage = "loaded" /\ GroupsShareNoTable(gs) =>
               /\ Len(groups) = Len(gs)
               /\ \A i, j \in 1..Len(groups) :
                      i # j => groups[i].cluster_id # groups[j].cluster_id
               /\ \A i \in 1..Len(groups) :
                      /\ groups[i].cluster_id \in ClusterKeys(clusters)
                      /\ GetCluster(clusters, groups[i].cluster_id).group_ids
                             = <<groups[i].group_id>>

\* P1 and P2 name the same two tables in different spellings and are one
\* group, P3 reads another table, and the loaded state has a cluster each
C27_Witness ==
    /\ stage = "loaded"
    /\ catalog.Procedures[1].Reads = <<"items">>
    /\ catalog.Procedures[2].Reads = <<"Items", "logs", "o">>
    /\ catalog.Procedures[3].Reads = <<"users">>
    /\ Len(gathered.groups) = 2
    /\ GroupsHolding(gathered.groups, "P1") = GroupsHolding(gathered.groups, "P2")
    /\ Len(partition) = 2
    /\ GetGroup(groups, "PG0").cluster_id # GetGroup(groups, "P3").cluster_id

\* |A n B| / |A u B|
Jaccard(A, B) == Frac(Cardinality(A \cap B), Cardinality(A \cup B))

InUnitInterval(x) == FracGeq(x, Frac(0, 1)) /\ FracGeq(Frac(1, 1), x)

\* the threshold the snapshot configures, 0.5 when it configures none
ConfiguredThreshold ==
    IF parameters.similarity_threshold = <<>> THEN Frac(1, 2)
    ELSE parameters.similarity_threshold[1]

\* C28: the edges of build_similarity_edges and the edges the rebuild pass
\* leaves in the state join two different groups, at most once per pair,
\* with a similarity in [0,1] that is the Jaccard similarity of the two
\* table sets taken in either order and is at least the threshold
C28_SimilarityEdges ==
    /\ \A k \in 1..Len(edge_list) :
           LET e == edge_list[k]
               left_tables == Range(gathered.groups[e.left + 1].tables)
               right_tables == Range(gathered.groups[e.right + 1].tables)
           IN  /\ e.left # e.right
               /\ \A l \in 1..Len(edge_list) :
                      l # k => {edge_list[l].left, edge_list[l].right}
                                   # {e.left, e.right}
               /\ InUnitInterval(e.similarity)
               /\ e.similarity = Jaccard(left_tables, right_tables)
               /\ e.similarity = Jaccard(right_tables, left_tables)
               /\ FracGeq(e.similarity, run_parameters.similarity_threshold)
    /\ \A k \in 1..Len(similarity_edges) :
           LET e == similarity_edges[k]
               source_tables ==
                   Range(GetGroup(groups, e.source).tables) \ global_tables
               target_tables ==
                   Range(GetGroup(groups, e.target).tables) \ global_tables
           IN  /\ e.source # e.target
               /\ \A l \in 1..Len(similarity_edges) :
                      l # k => {similarity_edges[l].source,
                                similarity_edges[l].target}
                                   # {e.source, e.target}
               /\ InUnitInterval(e.similarity)
               /\ e.similarity = Jaccard(source_tables, target_tables)
               /\ e.similarity = Jaccard(target_tables, source_tables)
               /\ FracGeq(e.similarity, ConfiguredThreshold)

\* a run whose threshold kept one pair of overlapping groups and dropped
\* another, loaded into a state that has an edge of its own
C28_Witness ==
    /\ stage = "loaded"
    /\ Len(edge_list) = 1
    /\ \E i, j \in 1..Len(gathered.groups) :
           /\ i < j
           /\ Range(gathered.groups[i].tables)
                  \cap Range(gathered.groups[j].tables) # {}
           /\ \A k \in 1..Len(edge_list) :
                  {edge_list[k].left, edge_list[k].right} # {i - 1, j - 1}
    /\ similarity_edges # <<>>

\* the groups of the run that no edge of edge_list touches
Isolated ==
    {idx \in 0..(Len(gathered.groups) - 1) :
        \A k \in 1..Len(edge_list) :
            idx \notin {edge_list[k].left, edge_list[k].right}}

\* C29: in the partition build_clusters_two_phase returns, a group without
\* a similarity edge is the only member of its cluster
C29_IsolatedGroupsAlone ==
    Partitioned =>
        \A idx \in Isolated : \A c \in 1..Len(partition) :
            InSeq(partition[c], idx) => partition[c] = <<idx>>

\* the largest cluster-level Jaccard similarity a group finds
BestAvailable(group_idx, cls) ==
    LET sims == {Jaccard(Range(gathered.groups[group_idx + 1].tables),
                         UNION {Range(gathered.groups[m + 1].tables) :
                                    m \in Range(cls[c])}) :
                    c \in 1..Len(cls)}
    IN  CHOOSE x \in sims : \A y \in sims : FracGeq(x, y)

\* C30: a phase 2 turn whose group finds a best similarity at or below
\* min_assignment_similarity appends a cluster holding the group alone; the
\* group is put into an existing cluster only when its best similarity is
\* strictly greater
C30_WeakJoinRefused ==
    [][(stage = "phase2" /\ connected_groups # <<>> /\ partition # <<>>) =>
          LET group_idx == Head(connected_groups)
              best == BestAvailable(group_idx, partition)
              ma == run_parameters.min_assignment_similarity
          IN  /\ FracGeq(ma, best) =>
                     partition' = Append(partition, <<group_idx>>)
              /\ Len(partition') = Len(partition) => FracGt(best, ma)]_vars

----------------------------------------------------------------------------
(* The service lock and the snapshot file *)

\* the step is one of thread t
StepOf(t) == pc'[t] # pc[t] \/ calls'[t] # calls[t]

\* the step is t entering `with self._lock:`
Acquires(t) == lock # t /\ lock' = t

\* thread u is inside a mutation: the listings are changed and the group
\* is not
MidMutation(u) == pc[u] = "commit"

\* C24: every step that reads or changes the ClusterState or writes the
\* snapshot file is taken by the thread that holds the service lock, and
\* while no other thread is in the middle of a mutation
C24_AllUnderTheLock ==
    [][\A t \in Threads :
           StepOf(t) /\ ~Acquires(t) =>
               /\ lock = t
               /\ \A u \in Threads \ {t} : ~MidMutation(u)]_vars

\* the call of thread t ends rejected
Rejected(t) == calls'[t] # calls[t] /\ pc[t] \in {"idle", "move_group"}

\* C25: the snapshot file is written by a thread whose mutation is
\* complete, a rejected call leaves the file as it is, and the file is
\* never written while any mutation is half applied
C25_SnapshotOfSettledState ==
    [][/\ disk' # disk =>
              /\ \E t \in Threads : pc[t] = "save" /\ pc'[t] = "idle"
              /\ \A u \in Threads : ~MidMutation(u)
       /\ \A t \in {"http", "agent"} : Rejected(t) => disk' = disk]_vars

----------------------------------------------------------------------------
(* The order and the choice of phase 2, and the edges against the naive   *)
(* pairwise computation                                                    *)

TablesOf(idx) == Range(gathered.groups[idx + 1].tables)

ClusterTables(cls, c) == UNION {TablesOf(m) : m \in Range(cls[c])}

\* C31: the groups waiting in phase 2 are in descending order of table
\* count, and a group put into an existing cluster is put into one whose
\* Jaccard similarity with the group is the largest over the clusters of
\* that moment and which has the fewest members among those of that
\* similarity
C31_BestFitChoice ==
    /\ [](\A i, j \in 1..Len(connected_groups) :
              i < j => Cardinality(TablesOf(connected_groups[i]))
                           >= Cardinality(TablesOf(connected_groups[j])))
    /\ [][(stage = "phase2" /\ connected_groups # <<>>
              /\ Len(partition') = Len(partition)) =>
             LET group_idx == Head(connected_groups)
                 sim(c) == Jaccard(TablesOf(group_idx),
                                   ClusterTables(partition, c))
             IN  \E c \in 1..Len(partition) :
                     /\ partition' = [partition EXCEPT
                                         ![c] = Append(@, group_idx)]
                     /\ \A d \in 1..Len(partition) :
                            /\ FracGeq(sim(c), sim(d))
                            /\ sim(d) = sim(c) =>
                                   Len(partition[c]) <= Len(partition[d])]_vars

\* {items} joined {items, logs}; then {logs}, as similar to that cluster
\* of two as to the cluster of {logs, users} alone, joined the latter
C31_Witness ==
    /\ stage = "phase2"
    /\ connected_groups = <<>>
    /\ Len(gathered.groups) = 4
    /\ TablesOf(0) = {"items"}
    /\ TablesOf(1) = {"items", "logs"}
    /\ TablesOf(2) = {"logs"}
    /\ TablesOf(3) = {"logs", "users"}
    /\ partition = <<(<<1, 0>>), (<<3, 2>>)>>

\* the edges of the pairwise computation over all pairs of groups
NaiveEdges ==
    {[left |-> pr[1], right |-> pr[2],
      similarity |-> Jaccard(TablesOf(pr[1]), TablesOf(pr[2]))] :
        pr \in {q \in (0..(Len(gathered.groups) - 1))
                          \X (0..(Len(gathered.groups) - 1)) :
                   /\ q[1] < q[2]
                   /\ Cardinality(TablesOf(q[1]))
                          >= run_parameters.min_group_size
                   /\ Cardinality(TablesOf(q[2]))
                          >= run_parameters.min_group_size
                   /\ TablesOf(q[1]) \cap TablesOf(q[2]) # {}
                   /\ FracGeq(Jaccard(TablesOf(q[1]), TablesOf(q[2])),
                              run_parameters.similarity_threshold)}}

\* C32: build_similarity_edges returns each edge of the naive pairwise
\* computation once and no other
C32_EdgesAsNaive ==
    stage \in {"edges", "phase2", "clustered", "written", "loaded"} =>
        /\ Range(edge_list) = NaiveEdges
        /\ Len(edge_list) = Cardinality(NaiveEdges)

\* a run that kept an edge, dropped a pair for its similarity and left out
\* a pair for the size of a group
C32_Witness ==
    /\ stage = "edges"
    /\ edge_list # <<>>
    /\ run_parameters.min_group_size = 2
    /\ \E i, j \in 0..(Len(gathered.groups) - 1) :
           /\ i < j
           /\ TablesOf(i) \cap TablesOf(j) # {}
           /\ Cardinality(TablesOf(i)) = 1
    /\ \E i, j \in 0..(Len(gathered.groups) - 1) :
           /\ i < j
           /\ TablesOf(i) \cap TablesOf(j) # {}
           /\ Cardinality(TablesOf(i)) >= 2
           /\ Cardinality(TablesOf(j)) >= 2
           /\ ~FracGeq(Jaccard(TablesOf(i), TablesOf(j)),
                       run_parameters.similarity_threshold)

----------------------------------------------------------------------------
(* What the rebuild pass leaves: edges, summaries                          *)

\* the min_group_size the snapshot configures, 1 when it configures none
ConfiguredMinGroupSize ==
    IF parameters.min_group_size = <<>> THEN 1
    ELSE parameters.min_group_size[1]

CoreOf(gid) == Range(GetGroup(groups, gid).tables) \ global_tables

HasEdge(a, b) ==
    \E k \in 1..Len(similarity_edges) :
        {similarity_edges[k].source, similarity_edges[k].target} = {a, b}

\* C33: after a rebuild two groups have an edge exactly when, over their
\* tables that are not global, both have at least min_group_size tables,
\* they share a table and their Jaccard similarity is at least the
\* configured similarity_threshold
C33_EdgesOverCoreTables ==
    result.status = "ok" =>
        \A a, b \in GroupKeys(groups) :
            a # b =>
                (HasEdge(a, b) <=>
                    /\ Cardinality(CoreOf(a)) >= ConfiguredMinGroupSize
                    /\ Cardinality(CoreOf(b)) >= ConfiguredMinGroupSize
                    /\ CoreOf(a) \cap CoreOf(b) # {}
                    /\ FracGeq(Jaccard(CoreOf(a), CoreOf(b)),
                               ConfiguredThreshold))

IsSortedList(seq) ==
    \A i, j \in 1..Len(seq) : i < j => Rank[seq[i]] < Rank[seq[j]]

MemberGroups(cluster) ==
    {g \in Range(groups) : g.group_id \in Range(cluster.group_ids)}

\* C34: after a successful mutation each cluster's procedures are the
\* sorted union of the procedures of the groups in its group_ids, its
\* tables the sorted union of their tables, and procedure_count the number
\* of those procedures
C34_SummariesAreUnions ==
    (result.op \in Mutations /\ result.status = "ok") =>
        \A k \in 1..Len(clusters) :
            LET cluster == clusters[k]
            IN  /\ Range(cluster.group_ids) \subseteq GroupKeys(groups)
                /\ IsSortedList(cluster.procedures)
                /\ Range(cluster.procedures) =
                       UNION {Range(g.procedures) : g \in MemberGroups(cluster)}
                /\ IsSortedList(cluster.tables)
                /\ Range(cluster.tables) =
                       UNION {Range(g.tables) : g \in MemberGroups(cluster)}
                /\ cluster.procedure_count =
                       Cardinality(UNION {Range(g.procedures) :
                                              g \in MemberGroups(cluster)})

\* a group was moved into a cluster that held another: the summary of that
\* cluster is the union over the two groups
C34_Witness ==
    /\ result.op = "move_group"
    /\ result.status = "ok"
    /\ \E k \in 1..Len(clusters) :
           /\ clusters[k].cluster_id # "trash"
           /\ Len(clusters[k].group_ids) = 2
           /\ clusters[k].procedure_count = 3
           /\ Len(clusters[k].tables) = 3
    /\ \E k \in 1..Len(clusters) :
           /\ clusters[k].cluster_id = result.args[2]
           /\ Len(clusters[k].group_ids) = 2

----------------------------------------------------------------------------
(* The trash cluster and the trash log                                     *)

\* C35: no table in orphaned_tables is listed by a group outside the trash
\* cluster
C35_OrphanedTablesUnlisted ==
    result.status = "ok" =>
        \A i \in 1..Len(groups) :
            groups[i].cluster_id # "trash" =>
                Range(groups[i].tables) \cap orphaned_tables = {}

ClusterOf(gid) == GetGroup(groups, gid).cluster_id

\* C36: with min_global_clusters at its default of 2, every similarity edge
\* left by a rebuild joins two groups of the same cluster
C36_EdgesWithinClusters ==
    (result.status = "ok" /\ ConfiguredMinGlobalClusters = 2) =>
        \A k \in 1..Len(similarity_edges) :
            ClusterOf(similarity_edges[k].source)
                = ClusterOf(similarity_edges[k].target)

\* a rebuild that left an edge between two groups of a cluster while a
\* group of another cluster shares a table with both
C36_Witness ==
    /\ result.op \in Mutations
    /\ result.status = "ok"
    /\ ConfiguredMinGlobalClusters = 2
    /\ \E k \in 1..Len(similarity_edges) :
           \E i \in 1..Len(groups) :
               /\ groups[i].cluster_id
                      # ClusterOf(similarity_edges[k].source)
               /\ groups[i].cluster_id # "trash"
               /\ Range(groups[i].tables)
                      \cap Range(GetGroup(groups,
                                     similarity_edges[k].source).tables)
                      \cap Range(GetGroup(groups,
                                     similarity_edges[k].target).tables) # {}

\* C37: every group whose cluster_id is "trash" has an empty table list
C37_TrashGroupsHaveNoTables ==
    result.status = "ok" =>
        \A i \in 1..Len(groups) :
            groups[i].cluster_id = "trash" => groups[i].tables = <<>>

ProcedureRecords(p) ==
    {k \in 1..Len(trash) : trash[k].item_type = "procedure"
                              /\ trash[k].item_id = p}

InTrashCluster(p) ==
    \E i \in 1..Len(groups) :
        groups[i].cluster_id = "trash" /\ InSeq(groups[i].procedures, p)

\* C38: each procedure record of the trash log names a procedure that is
\* in a group of the trash cluster, no procedure has two records, and after
\* a successful restore_procedure(P) the log has no procedure record for P
C38_TrashLogMatchesTrash ==
    result.status = "ok" =>
        /\ \A k \in 1..Len(trash) :
               trash[k].item_type = "procedure" =>
                   /\ InTrashCluster(trash[k].item_id)
                   /\ Cardinality(ProcedureRecords(trash[k].item_id)) = 1
        /\ result.op = "restore_procedure" =>
               ProcedureRecords(result.args[1]) = {}

\* C39: when delete_table(T) has succeeded, restore_table on the index of
\* the record it appended gives back the missing_tables, orphaned_tables,
\* global_tables, groups and trash log of the state delete_table was
\* called in
C39_TableRoundTrip ==
    [][(result'.op = "delete_table" /\ result'.status = "ok") =>
          LET restored == restore_table(State', Len(trash') - 1)
          IN  /\ restored.status = "ok"
              /\ restored.s.missing_tables = missing_tables
              /\ restored.s.orphaned_tables = orphaned_tables
              /\ restored.s.global_tables = global_tables
              /\ restored.s.groups = groups
              /\ restored.s.trash = trash]_vars

\* an orphaned table was deleted and restored: it is orphaned again and
\* the trash log is as empty as before
C39_Witness ==
    /\ result.op = "restore_table"
    /\ result.status = "ok"
    /\ result.ret.was_orphaned
    /\ result.ret.restored_table \in orphaned_tables
    /\ result.ret.restored_table \notin missing_tables
    /\ trash = <<>>

====
